---- MODULE Spec2Model ----
(***************************************************************************)
(* The SMS booking handler of simple_bot_PRODUCTION.py as a state machine. *)
(*                                                                         *)
(* The state is the content of the record store (one variable per table),  *)
(* the build switch USE_POSTGRES, and the outputs of the last request      *)
(* (the TwiML reply and the side-channel SMS).  Each request handler       *)
(* (incoming_sms, booking_form POST) is one atomic action in Spec.  The    *)
(* specifications for concurrent requests run two request threads, each    *)
(* database statement (one execute_query call, which opens its own         *)
(* connection and commits) being one atomic step.                          *)
(*                                                                         *)
(* A message is a sequence of words.  The keyword tests of the source are  *)
(* computed on the words: a substring test (x in body.lower()) looks at    *)
(* the substrings of each word, a whole-word test (\b...\b) at the words.   *)
(***************************************************************************)
EXTENDS Integers, Sequences, FiniteSets, TLC

VARIABLES
    USE_POSTGRES,   \* the build: PostgreSQL (TRUE) or SQLite (FALSE)
    blocked,        \* table blocked_numbers: the set of phone numbers in it
    logged,         \* table messages: number of rows per phone number
    pending,        \* table pending_confirmations: rows per phone number
    progress,       \* table booking_progress: rows per phone number
    tracking,       \* table message_tracking: rows per phone number
    deposits,       \* table deposit_requests: rows per phone number
    reminders,      \* table room_detail_reminders: rows per phone number
    location,       \* table incall_location, the row with id 1
    reply,          \* the TwiML reply of the last request
    outbox,         \* the side-channel SMS (send_sms) of the last request
    prompts,        \* history: prompts for missing information sent to a phone
                    \* number since its last confirmation or cancellation
    pc,             \* per request thread: the statement it executes next
    local,          \* per request thread: its local variables
    origin,         \* history: the store when the concurrent requests arrived
    now,            \* the wall clock, in slots of five minutes
    delivered,      \* history: per reminder row, the reminder messages that
                    \* Twilio accepted for it
    redirected,     \* history: the phone numbers sent the automated redirect
                    \* of the fourth attempt since their attempt count was
                    \* last reset
    polish          \* a call of polish_with_ai: its arguments, the statement
                    \* it executes next, the rewrite it got, its result

vars == <<USE_POSTGRES, blocked, logged, pending, progress, tracking,
          deposits, reminders, location, reply, outbox, prompts,
          pc, local, origin, now, delivered, polish, redirected>>

(***************************************************************************)
(* Bounds of the model.                                                    *)
(***************************************************************************)
\* rows of table messages counted per phone number; the count saturates here
MaxLogged == 2
\* prompts counted per phone number; the count saturates here
MaxPrompts == 3
\* confirmed bookings (rows of deposit_requests) per phone number
MaxDeposits == 1
\* the last slot of the wall clock
MaxNow == 4
\* the slot in which the booking of Friday 20/12/2025 7:00PM starts
BookingSlot == 14

(***************************************************************************)
(* Configuration (lines 115-143).                                          *)
(***************************************************************************)
ClientPhone == "+61400000001"
ADELLA_PHONE_NUMBER == "+61412345729"
\* the allowlist with the client on it
AUTHORIZED_ADMIN_NUMBERS_with_client ==
    {"+61412345729", "+61407530802", "+61427590188", "+61480089652", ClientPhone}

AUTHORIZED_ADMIN_NUMBERS ==
    {"+61412345729", "+61407530802", "+61427590188", "+61480089652"}

Phones == {ClientPhone}

\* Python None and the empty string: both are falsy in `a or b`
NULL == ""

(***************************************************************************)
(* Words and messages.                                                     *)
(***************************************************************************)
\* str.lower() on a word
Lower(w) ==
    CASE w = "ENQUIRY" -> "enquiry"
      [] w = "DEPOSIT" -> "deposit"
      [] w = "LOCATION" -> "location"
      [] w = "John" -> "john"
      [] w = "J" -> "j"
      [] w = "Perth" -> "perth"
      [] w = "Perth:" -> "perth:"
      [] w = "Sydney" -> "sydney"
      [] w = "Adelaide" -> "adelaide"
      [] w = "Melbourne" -> "melbourne"
      [] w = "Brisbane" -> "brisbane"
      [] w = "Darwin" -> "darwin"
      [] w = "Hobart" -> "hobart"
      [] w = "Canberra" -> "canberra"
      [] w = "Newcastle" -> "newcastle"
      [] w = "1 Hay St" -> "1 hay st"
      [] w = "12 King St, Perth 6000" -> "12 king st, perth 6000"
      [] OTHER -> w

\* str.title() on a word
Title(w) ==
    CASE w = "john" -> "John"
      [] w = "j" -> "J"
      [] w = "fuck" -> "Fuck"
      [] w = "shit" -> "Shit"
      [] w = "perth:" -> "Perth:"
      [] w = "perth" -> "Perth"
      [] OTHER -> w

\* the keywords of the source that occur inside a lower-case word
\* (the word itself included)
Substrings(w) ==
    {w} \cup
    (CASE w = "perth:" -> {"perth"}
       [] w = "12 king st, perth 6000" -> {"perth"}
       [] w = "7pm" -> {"pm"}
       [] w = "1 hour" -> {"hour"}
       [] OTHER -> {})

\* keyword in message_body.lower()
Contains(m, kw) == \E i \in DOMAIN m : kw \in Substrings(Lower(m[i]))

\* re.search(r'\b' + keyword + r'\b', message_body.lower())
HasWord(m, kw) == \E i \in DOMAIN m : Lower(m[i]) = kw

\* the inbound message texts of the model
Messages ==
    { <<"hi">>,
      <<"ENQUIRY", "hi">>,
      <<"ENQUIRY", "cancel", "John", "yes">>,
      <<"bb">>,
      <<"bb", "cancel">>,
      <<"cancel">>,
      <<"yes">>,
      <<"John", "yes">>,
      <<"John", "yes", "fuck", "shit">>,
      <<"DEPOSIT">>,
      <<"outcall">>,
      <<"perth", "friday", "7pm", "1 hour", "gfe", "incall">>,
      <<"LOCATION", "Perth:", "1 Hay St">>,
      <<"12 King St, Perth 6000">> }

\* the texts explored under the SQLite build, where every save of booking
\* progress moves the stored values one column on and so multiplies the
\* stored records
SqliteMessages ==
    Messages \ { <<"LOCATION", "Perth:", "1 Hay St">>, <<"12 King St, Perth 6000">> }

(***************************************************************************)
(* Keyword detection (lines 210-319).                                      *)
(***************************************************************************)
\* the one-word keys of UNSAFE_TERMS
UNSAFE_TERMS == {"bbs", "bareback", "bb", "raw"}

PROFANITY_WORDS ==
    {"fuck", "shit", "bitch", "cunt", "bastard", "asshole", "prick",
     "dick", "cock", "pussy", "whore", "slut", "damn", "hell"}

\* the one-word entries of cancellation_keywords
CancellationKeywords == {"cancel", "reschedule"}

detect_unsafe_requests(m) == {t \in UNSAFE_TERMS : HasWord(m, t)}

detect_profanity(m) ==
    Cardinality({w \in PROFANITY_WORDS : HasWord(m, w)}) >= 2

is_cancellation(m) == \E k \in CancellationKeywords : Contains(m, k)

\* message_body.upper().startswith('ENQUIRY')
StartsWithEnquiry(m) == Lower(m[1]) = "enquiry"

\* message_body.startswith('LOCATION '): case-sensitive, text follows
StartsWithLocation(m) == m[1] = "LOCATION" /\ Len(m) >= 2

\* 'yes' in message_body.lower()
ContainsYes(m) == Contains(m, "yes")

\* message_body.upper().strip() == 'DEPOSIT'
IsDepositKeyword(m) == Len(m) = 1 /\ Lower(m[1]) = "deposit"

(***************************************************************************)
(* Field extraction (lines 1052-1181).                                     *)
(***************************************************************************)
FieldNames ==
    <<"city", "date", "time", "duration", "experience_type",
      "incall_outcall", "outcall_address">>

NoDetails == [f \in {FieldNames[i] : i \in DOMAIN FieldNames} |-> NULL]

\* the keys of CITY_TIMEZONES, in the order of the dict
CITY_TIMEZONES ==
    <<"Adelaide", "Sydney", "Melbourne", "Brisbane", "Perth", "Darwin",
      "Hobart", "Canberra", "Gold Coast", "Newcastle">>

get_timezone_for_city(city) ==
    CASE city = "Perth" -> "Australia/Perth"
      [] city \in {"Sydney", "Melbourne", "Canberra", "Newcastle"} -> "Australia/Sydney"
      [] city \in {"Brisbane", "Gold Coast"} -> "Australia/Brisbane"
      [] city = "Darwin" -> "Australia/Darwin"
      [] city = "Hobart" -> "Australia/Hobart"
      [] OTHER -> "Australia/Adelaide"

\* the first city of the list whose lower-case name is in the message
ExtractCity(m) ==
    LET hits == {i \in DOMAIN CITY_TIMEZONES : Contains(m, Lower(CITY_TIMEZONES[i]))}
    IN  IF hits = {} THEN NULL
        ELSE CITY_TIMEZONES[CHOOSE i \in hits : \A j \in hits : i <= j]

\* parse_date_from_message followed by strftime('%A %d/%m/%Y'), for the
\* clock of the model: the next Friday is 20/12/2025
ExtractDate(m) ==
    IF Contains(m, "friday") THEN "Friday 20/12/2025" ELSE NULL

\* the hour and minute the two time patterns match in a word, <<>> if none
TimeMatch(w) ==
    CASE w = "7pm" -> <<7, 0>>
      [] OTHER -> <<>>

\* parse_time_from_message: <<hour, minute>> on the 24-hour clock, or <<>>
parse_time_from_message(m) ==
    LET hits == {i \in DOMAIN m : TimeMatch(Lower(m[i])) # <<>>}
    IN  IF hits = {} THEN <<>>
        ELSE LET t == TimeMatch(Lower(m[CHOOSE i \in hits : \A j \in hits : i <= j]))
                 ampm == IF Contains(m, "am") THEN "am"
                         ELSE IF Contains(m, "pm") THEN "pm" ELSE NULL
                 hour == IF ampm = "pm" /\ t[1] < 12 THEN t[1] + 12
                         ELSE IF ampm = "am" /\ t[1] = 12 THEN 0 ELSE t[1]
             IN  IF 0 <= hour /\ hour <= 23 /\ 0 <= t[2] /\ t[2] <= 59
                 THEN <<hour, t[2]>> ELSE <<>>

\* f"{minute:02d}"
TwoDigits(n) == IF n < 10 THEN "0" \o ToString(n) ELSE ToString(n)

\* f"{display_hour}:{minute:02d}{period}"
ExtractTime(m) ==
    LET t == parse_time_from_message(m)
    IN  IF t = <<>> THEN NULL
        ELSE LET period == IF t[1] < 12 THEN "AM" ELSE "PM"
                 h == IF t[1] <= 12 THEN t[1] ELSE t[1] - 12
                 display_hour == IF h = 0 THEN 12 ELSE h
             IN  ToString(display_hour) \o ":" \o TwoDigits(t[2]) \o period

\* r'(\d+)\s*(hour|hr|min)' on the lower-case text, group(0)
ExtractDuration(m) ==
    IF HasWord(m, "1 hour") THEN "1 hour" ELSE NULL

ExtractExperience(m) ==
    IF Contains(m, "gfe") \/ Contains(m, "girlfriend") THEN "GFE"
    ELSE IF Contains(m, "pse") \/ Contains(m, "porn star") THEN "PSE"
    ELSE NULL

ExtractIncallOutcall(m) ==
    IF Contains(m, "incall") THEN "Incall"
    ELSE IF Contains(m, "outcall") THEN "Outcall"
    ELSE NULL

\* address_pattern, group(0): the text as written
ExtractAddress(m) ==
    IF \E i \in DOMAIN m : m[i] = "12 King St, Perth 6000"
    THEN "12 King St, Perth 6000" ELSE NULL

extract_booking_details(m) ==
    [city |-> ExtractCity(m),
     date |-> ExtractDate(m),
     time |-> ExtractTime(m),
     duration |-> ExtractDuration(m),
     experience_type |-> ExtractExperience(m),
     incall_outcall |-> ExtractIncallOutcall(m),
     outcall_address |-> ExtractAddress(m)]

\* any(details.values())
AnyValue(d) == \E f \in DOMAIN d : d[f] # NULL

\* ' '.join of title-cased words
RECURSIVE JoinTitle(_)
JoinTitle(ws) ==
    IF ws = <<>> THEN ""
    ELSE IF Len(ws) = 1 THEN Title(Lower(ws[1]))
    ELSE Title(Lower(ws[1])) \o " " \o JoinTitle(Tail(ws))

NameFillers == {"ok", "yeah", "yep", "sure"}

\* extract_name_from_yes_message: the title-cased name, NULL for None
extract_name_from_yes_message(m) ==
    LET rest == SelectSeq(m, LAMBDA w : Lower(w) # "yes")
        name == JoinTitle(rest)
    IN  IF name # "" /\ Len(name) >= 2
           /\ ~(Len(rest) = 1 /\ Lower(rest[1]) \in NameFillers)
        THEN name ELSE NULL

(***************************************************************************)
(* The record store.  The operations below take the store as a record S    *)
(* and give the store after them, so that a handler is the composition of  *)
(* its statements.                                                         *)
(***************************************************************************)
Store ==
    [blocked |-> blocked, logged |-> logged, pending |-> pending,
     progress |-> progress, tracking |-> tracking, deposits |-> deposits,
     reminders |-> reminders, location |-> location]

\* the outcome of a request: the store after it, the TwiML reply, the SMS sent
Reply(p, kind, rep, text) == [to |-> p, kind |-> kind, rep |-> rep, text |-> text]
NoReply(p) == Reply(p, "none", 0, NULL)
Outcome(S, r, sms) == [store |-> S, reply |-> r, outbox |-> sms]

\* result[0] of a SELECT without ORDER BY.  SQLite scans the table in rowid
\* order, so it is the oldest row; PostgreSQL promises no order, so it is
\* the ord-th row for an ord the request cannot control.
FirstRow(rows, ord) ==
    IF USE_POSTGRES /\ ord <= Len(rows) THEN rows[ord] ELSE rows[1]

\* UPDATE message_tracking SET <column> = v WHERE phone_number = p
UpdateAllRows(rows, col, v) == [i \in DOMAIN rows |-> [rows[i] EXCEPT ![col] = v]]

DefaultLocation ==
    [city |-> "Adelaide",
     address |-> "Adelaide CBD - Location details on confirmation",
     intercom_number |-> "TBA",
     timezone |-> "Australia/Adelaide"]

get_current_incall_location(S) == S.location

update_incall_location(S, city, new_address, intercom_number) ==
    [S EXCEPT !.location =
        [city |-> city,
         address |-> new_address,
         intercom_number |-> IF intercom_number # NULL THEN intercom_number
                             ELSE S.location.intercom_number,
         timezone |-> get_timezone_for_city(city)]]

\* is_number_blocked with the lookup failing for every phone number
is_number_blocked_never(S, p) == FALSE

is_number_blocked(S, p) == p \in S.blocked

\* INSERT ... ON CONFLICT (phone_number) DO NOTHING
block_phone_number(S, p) == [S EXCEPT !.blocked = @ \cup {p}]

log_message(S, p) ==
    [S EXCEPT !.logged[p] = IF @ < MaxLogged THEN @ + 1 ELSE @]

\* get_message_count taken before the message is logged
get_message_count_before_log(S, p) == S.logged[p] - 1

get_message_count(S, p) == S.logged[p]

\* get_booking_progress: <<>> for None, else the one row of the phone number
get_booking_progress(S, p) == S.progress[p]

\* the columns save_booking_progress reads as the current city, date, ...:
\* by name under PostgreSQL, by index 1..7 under SQLite, where column 0 is
\* id and column 1 is phone_number
CurrentColumns(current, p) ==
    IF USE_POSTGRES THEN current
    ELSE [city |-> p,
          date |-> current.city,
          time |-> current.date,
          duration |-> current.time,
          experience_type |-> current.duration,
          incall_outcall |-> current.experience_type,
          outcall_address |-> current.incall_outcall]

\* a or b that gives a even when a is empty
Or_first(a, b) == a

\* a or b
Or(a, b) == IF a # NULL THEN a ELSE b

save_booking_progress(S, p, details) ==
    IF S.progress[p] # <<>>
    THEN LET cur == CurrentColumns(S.progress[p][1], p)
         IN  [S EXCEPT !.progress[p] =
                 <<[f \in DOMAIN details |-> Or(details[f], cur[f])]>>]
    ELSE [S EXCEPT !.progress[p] = <<details>>]

\* the delete without its WHERE clause
clear_booking_progress_all(S, p) == [S EXCEPT !.progress = [q \in DOMAIN @ |-> <<>>]]

clear_booking_progress(S, p) == [S EXCEPT !.progress[p] = <<>>]

NewTrackingRow(count, booking_id) ==
    [message_count |-> count, booking_id |-> booking_id, enquiry_sent |-> FALSE]

increment_booking_attempts(S, p, ord) ==
    LET rows == S.tracking[p]
    IN  IF rows # <<>>
        THEN [S EXCEPT !.tracking[p] =
                 UpdateAllRows(rows, "message_count", FirstRow(rows, ord).message_count + 1)]
        ELSE [S EXCEPT !.tracking[p] = <<NewTrackingRow(1, NULL)>>]

increment_post_booking_messages(S, p, ord) ==
    LET rows == S.tracking[p]
        booked == SelectSeq(rows, LAMBDA r : r.booking_id # NULL)
    IN  IF booked # <<>>
        THEN [S EXCEPT !.tracking[p] =
                 UpdateAllRows(rows, "message_count", FirstRow(booked, ord).message_count + 1)]
        ELSE [S EXCEPT !.tracking[p] = Append(rows, NewTrackingRow(1, "1"))]

get_booking_attempts(S, p, ord) ==
    IF S.tracking[p] # <<>> THEN FirstRow(S.tracking[p], ord).message_count ELSE 0

\* <<limit_reached, enquiry_sent>>
check_post_booking_message_limit(S, p, ord) ==
    IF S.tracking[p] # <<>>
    THEN LET r == FirstRow(S.tracking[p], ord)
         IN  <<r.message_count >= 3, r.enquiry_sent>>
    ELSE <<FALSE, FALSE>>

save_deposit_request(S, p, booking_datetime) ==
    [S EXCEPT !.deposits[p] = Append(@, booking_datetime)]

schedule_room_detail_reminder(S, p, client_name, booking_datetime, city, incall_outcall, outcall_address) ==
    [S EXCEPT !.reminders[p] =
        Append(@, [client_name |-> client_name,
                   booking_datetime |-> booking_datetime,
                   city |-> city,
                   incall_outcall |-> incall_outcall,
                   outcall_address |-> outcall_address,
                   sent |-> FALSE])]

\* the INSERT of save_pending_confirmation without the DELETE before it
save_pending_confirmation_appending(S, p, d, booking_status, awaiting_deposit, peacock_event_id, client_name) ==
    [S EXCEPT !.pending[p] = Append(@,
        [client_name |-> client_name,
         city |-> d.city,
         date |-> d.date,
         time |-> d.time,
         duration |-> d.duration,
         experience_type |-> d.experience_type,
         incall_outcall |-> d.incall_outcall,
         outcall_address |-> d.outcall_address,
         booking_status |-> booking_status,
         awaiting_deposit_screenshot |-> awaiting_deposit,
         peacock_event_id |-> peacock_event_id])]

\* lines 1292-1311: DELETE the rows of the phone number, then INSERT
save_pending_confirmation(S, p, d, booking_status, awaiting_deposit, peacock_event_id, client_name) ==
    [S EXCEPT !.pending[p] =
        <<[client_name |-> client_name,
           city |-> d.city,
           date |-> d.date,
           time |-> d.time,
           duration |-> d.duration,
           experience_type |-> d.experience_type,
           incall_outcall |-> d.incall_outcall,
           outcall_address |-> d.outcall_address,
           booking_status |-> booking_status,
           awaiting_deposit_screenshot |-> awaiting_deposit,
           peacock_event_id |-> peacock_event_id]>>]

\* ORDER BY created_at DESC LIMIT 1: <<>> for None, else the newest row
get_pending_confirmation(S, p) ==
    IF S.pending[p] = <<>> THEN <<>> ELSE <<S.pending[p][Len(S.pending[p])]>>

delete_pending_confirmation(S, p) == [S EXCEPT !.pending[p] = <<>>]

(***************************************************************************)
(* The branches of incoming_sms (lines 1359-1804).                         *)
(***************************************************************************)
Sms(to, kind) == [to |-> to, kind |-> kind]

\* the forward with the stored progress cleared
EnquiryTurn_clearing(S, p) ==
    Outcome(clear_booking_progress(S, p), Reply(p, "enquiry_forwarded", 0, NULL),
            <<Sms(ADELLA_PHONE_NUMBER, "enquiry_forward")>>)

\* lines 1376-1383
EnquiryTurn(S, p) ==
    Outcome(S, Reply(p, "enquiry_forwarded", 0, NULL),
            <<Sms(ADELLA_PHONE_NUMBER, "enquiry_forward")>>)

\* lines 1386-1392
UnsafeTurn(S, p) == Outcome(S, Reply(p, "unsafe_request", 0, NULL), <<>>)

\* lines 1395-1407
CancellationTurn(S, p) ==
    Outcome([S EXCEPT !.pending[p] = <<>>, !.tracking[p] = <<>>],
            Reply(p, "booking_cancelled", 0, NULL), <<>>)

\* lines 1411-1437 for a text "LOCATION <City>: <address>" or
\* "LOCATION <address>", no INTERCOM part
LocationTurn(S, p, m) ==
    LET colon == Len(m) >= 3 /\ Lower(m[2]) = "perth:"
        city == IF colon THEN "Perth" ELSE get_current_incall_location(S).city
        address == m[Len(m)]
    IN  Outcome(update_incall_location(S, city, address, NULL),
                Reply(p, "location_updated", 0, NULL), <<>>)

\* DepositMandatory without the three-strike rule
DepositMandatory_no_strikes(pend, m, attempts) ==
    \/ pend.incall_outcall = "Outcall"
    \/ detect_profanity(m)
    \/ pend.booking_status = "peacock_available"

\* lines 1456-1466: whether the YES turn asks for a mandatory deposit
DepositMandatory(pend, m, attempts) ==
    \/ pend.incall_outcall = "Outcall"
    \/ detect_profanity(m)
    \/ attempts >= 3
    \/ pend.booking_status = "peacock_available"

\* MandatoryDepositOutcome that clears the stored progress
MandatoryDepositOutcome_clearing(S, p, pend, client_name, attempts) ==
    Outcome(clear_booking_progress(
                save_pending_confirmation(S, p, pend, "deposit_required", FALSE,
                                          pend.peacock_event_id, client_name), p),
            Reply(p, "deposit_mandatory", 0, NULL),
            <<>>)

\* lines 1468-1480
MandatoryDepositOutcome(S, p, pend, client_name, attempts) ==
    Outcome(save_pending_confirmation(S, p, pend, "deposit_required", FALSE,
                                      pend.peacock_event_id, client_name),
            Reply(p, "deposit_mandatory", 0,
                  IF attempts >= 3 THEN " (Due to multiple information requests)"
                  ELSE NULL),
            <<>>)

\* ConfirmBookingOutcome that keeps the stored progress
ConfirmBookingOutcome_keeping(S, p, pend, client_name) ==
    LET booking_datetime == pend.date \o " " \o pend.time
        S1 == IF pend.incall_outcall = "Incall"
              THEN schedule_room_detail_reminder(S, p, client_name, booking_datetime,
                       pend.city, pend.incall_outcall, pend.outcall_address)
              ELSE S
        S2 == save_deposit_request(S1, p, booking_datetime)
        S4 == [S2 EXCEPT !.tracking[p] = <<NewTrackingRow(0, NULL)>>]
        S5 == delete_pending_confirmation(S4, p)
    IN  Outcome(S5, Reply(p, "booking_confirmed", 0, NULL),
                <<Sms(p, "deposit_non_mandatory")>>)

\* lines 1483-1528
ConfirmBookingOutcome(S, p, pend, client_name) ==
    LET booking_datetime == pend.date \o " " \o pend.time
        S1 == IF pend.incall_outcall = "Incall"
              THEN schedule_room_detail_reminder(S, p, client_name, booking_datetime,
                       pend.city, pend.incall_outcall, pend.outcall_address)
              ELSE S
        S2 == save_deposit_request(S1, p, booking_datetime)
        S3 == clear_booking_progress(S2, p)
        S4 == [S3 EXCEPT !.tracking[p] = <<NewTrackingRow(0, NULL)>>]
        S5 == delete_pending_confirmation(S4, p)
    IN  Outcome(S5, Reply(p, "booking_confirmed", 0, NULL),
                <<Sms(p, "deposit_non_mandatory")>>)

\* the YES turn when the missing name consumes the pending confirmation
YesTurn_consuming(S, p, m, pend, ord) ==
    LET client_name == extract_name_from_yes_message(m)
        attempts == get_booking_attempts(S, p, ord)
    IN  IF client_name = NULL
        THEN Outcome(delete_pending_confirmation(S, p), Reply(p, "need_name", 0, NULL), <<>>)
        ELSE IF DepositMandatory(pend, m, attempts)
        THEN MandatoryDepositOutcome(S, p, pend, client_name, attempts)
        ELSE ConfirmBookingOutcome(S, p, pend, client_name)

\* lines 1443-1528
YesTurn(S, p, m, pend, ord) ==
    LET client_name == extract_name_from_yes_message(m)
        attempts == get_booking_attempts(S, p, ord)
    IN  IF client_name = NULL
        THEN Outcome(S, Reply(p, "need_name", 0, NULL), <<>>)
        ELSE IF DepositMandatory(pend, m, attempts)
        THEN MandatoryDepositOutcome(S, p, pend, client_name, attempts)
        ELSE ConfirmBookingOutcome(S, p, pend, client_name)

\* the save with the defaults of its keyword arguments
DepositTurn_defaults(S, p, pend) ==
    Outcome(save_pending_confirmation(S, p, pend, "available", TRUE, NULL, NULL),
            Reply(p, "payid_details", 0, pend.date \o " " \o pend.time), <<>>)

\* lines 1531-1543
DepositTurn(S, p, pend) ==
    Outcome(save_pending_confirmation(S, p, pend, pend.booking_status, TRUE,
                                      pend.peacock_event_id, pend.client_name),
            Reply(p, "payid_details", 0, pend.date \o " " \o pend.time), <<>>)

RequiredFields ==
    <<"city", "date", "time", "duration", "experience_type", "incall_outcall">>

\* the missing fields without the outcall address of an Outcall booking
MissingFields_no_address(d) == SelectSeq(RequiredFields, LAMBDA f : d[f] = NULL)

\* lines 1659-1663, 1715-1719
MissingFields(d) ==
    SelectSeq(RequiredFields, LAMBDA f : d[f] = NULL)
      \o (IF d.incall_outcall = "Outcall" /\ d.outcall_address = NULL
          THEN <<"outcall_address">> ELSE <<>>)

QuestionOf(f) ==
    CASE f = "city" -> "City"
      [] f = "date" -> "Date"
      [] f = "time" -> "Time"
      [] f = "duration" -> "Duration"
      [] f = "experience_type" -> "Experience (GFE/PSE)"
      [] f = "incall_outcall" -> "Incall or Outcall"
      [] f = "outcall_address" -> "Outcall address"

\* lines 1672-1686, 1759-1773
MissingQuestions(missing) ==
    LET asked == SelectSeq(FieldNames, LAMBDA f : \E i \in DOMAIN missing : missing[i] = f)
    IN  [i \in DOMAIN asked |-> QuestionOf(asked[i])]

\* ', '.join(qs)
RECURSIVE JoinComma(_)
JoinComma(qs) ==
    IF qs = <<>> THEN ""
    ELSE IF Len(qs) = 1 THEN qs[1]
    ELSE qs[1] \o ", " \o JoinComma(Tail(qs))

\* the ask message that always lists the names
AskMessage_list(qs) == "I still need: " \o JoinComma(qs)

\* lines 1689-1694, 1776-1781
AskMessage(qs) ==
    IF Len(qs) = 1 THEN "I just need your " \o qs[1]
    ELSE IF Len(qs) = 2 THEN "I just need your " \o qs[1] \o " and " \o qs[2]
    ELSE "I still need: " \o JoinComma(qs)

\* FinalBlock that also removes the message-tracking rows of the phone number
FinalBlock_clearing(S, p) ==
    Outcome([block_phone_number(S, p) EXCEPT !.tracking[p] = <<>>],
            Reply(p, "fifth_message_block", 6, NULL), <<>>)

\* lines 1586-1597, 1631-1642, 1726-1737
FinalBlock(S, p) ==
    Outcome(block_phone_number(S, p), Reply(p, "fifth_message_block", 6, NULL), <<>>)

\* the automated redirect without the increment of the attempt count
AutomatedEnquiry_keeping(S, p, ord) ==
    Outcome(S, Reply(p, "fourth_message_enquiry", 5, NULL), <<>>)

\* lines 1600-1611, 1645-1656, 1740-1751
AutomatedEnquiry(S, p, ord) ==
    Outcome(increment_booking_attempts(S, p, ord),
            Reply(p, "fourth_message_enquiry", 5, NULL), <<>>)

\* the prompt composed with the count after its increment
AskForMissing_incremented(S, p, missing, attempts, ord) ==
    Outcome(increment_booking_attempts(S, p, ord),
            Reply(p, "ask_missing", attempts + 1, AskMessage(MissingQuestions(missing))),
            <<>>)

\* lines 1666-1699, 1753-1786
AskForMissing(S, p, missing, attempts, ord) ==
    Outcome(increment_booking_attempts(S, p, ord),
            Reply(p, "ask_missing", attempts, AskMessage(MissingQuestions(missing))),
            <<>>)

\* lines 1581-1623: no booking information in the message, no stored progress
RandomText(S, p, ord) ==
    LET attempts == get_booking_attempts(S, p, ord)
    IN  IF attempts >= 5 THEN FinalBlock(S, p)
        ELSE IF attempts >= 4 THEN AutomatedEnquiry(S, p, ord)
        ELSE Outcome(increment_booking_attempts(S, p, ord),
                     Reply(p, "random_request", attempts, NULL), <<>>)

\* lines 1626-1699: no booking information in the message, stored progress
\* with fields missing or the attempt count at 4 or more
StillRandom(S, p, existing, ord) ==
    LET attempts == get_booking_attempts(S, p, ord)
    IN  IF attempts >= 5 THEN FinalBlock(S, p)
        ELSE IF attempts >= 4 THEN AutomatedEnquiry(S, p, ord)
        ELSE AskForMissing(S, p, MissingFields(existing), attempts, ord)

\* AllDetailsCaptured without the reset of the attempt count
AllDetailsCaptured_no_reset(S, p, merged) ==
    Outcome(save_pending_confirmation(S, p, merged, "available", FALSE, NULL, NULL),
            Reply(p, "time_available", 0, merged.date \o " at " \o merged.time),
            <<>>)

\* lines 1790-1804
AllDetailsCaptured(S, p, merged) ==
    LET S1 == save_pending_confirmation(S, p, merged, "available", FALSE, NULL, NULL)
        S2 == [S1 EXCEPT !.tracking[p] = UpdateAllRows(@, "message_count", 0)]
    IN  Outcome(S2, Reply(p, "time_available", 0, merged.date \o " at " \o merged.time),
                <<>>)

\* lines 1702-1708: the new details merged with the stored progress
MergedDetails(new_details, existing) ==
    IF existing # <<>>
    THEN [f \in DOMAIN new_details |-> Or(new_details[f], existing[1][f])]
    ELSE new_details

\* lines 1702-1712: the store after the merge of new_details into the stored
\* progress of p
MergeProgress(S, p, new_details) ==
    LET merged == MergedDetails(new_details, get_booking_progress(S, p))
    IN  IF AnyValue(merged) THEN save_booking_progress(S, p, merged) ELSE S

\* lines 1702-1804
MergeStep(S, p, new_details, existing, ord) ==
    LET merged == MergedDetails(new_details, existing)
        S1 == IF AnyValue(merged) THEN save_booking_progress(S, p, merged) ELSE S
        missing == MissingFields(merged)
        attempts == get_booking_attempts(S1, p, ord)
    IN  IF missing # <<>>
        THEN IF attempts >= 5 THEN FinalBlock(S1, p)
             ELSE IF attempts >= 4 THEN AutomatedEnquiry(S1, p, ord)
             ELSE AskForMissing(S1, p, missing, attempts, ord)
        ELSE AllDetailsCaptured(S1, p, merged)

\* lines 1572-1804
ExtractionStep(S, p, m, ord) ==
    LET new_details == extract_booking_details(m)
        existing == get_booking_progress(S, p)
        has_booking_info == AnyValue(new_details)
    IN  IF ~has_booking_info /\ existing = <<>>
        THEN RandomText(S, p, ord)
        ELSE IF /\ ~has_booking_info
                /\ existing # <<>>
                /\ \/ get_booking_attempts(S, p, ord) >= 4
                   \/ MissingFields(existing[1]) # <<>>
        THEN StillRandom(S, p, existing[1], ord)
        ELSE MergeStep(S, p, new_details, existing, ord)

\* the post-booking step with the redirect not recorded in enquiry_sent
PostBookingStep_unrecorded(S, p, m, ord) ==
    LET lim == check_post_booking_message_limit(S, p, ord)
    IN  IF lim[1] /\ ~lim[2]
        THEN Outcome(S, Reply(p, "enquiry_redirect", 0, NULL), <<>>)
        ELSE LET S1 == IF S.tracking[p] # <<>>
                       THEN increment_post_booking_messages(S, p, ord) ELSE S
             IN  IF get_message_count(S1, p) = 1
                 THEN Outcome(S1, Reply(p, "first_contact", 0, NULL), <<>>)
                 ELSE ExtractionStep(S1, p, m, ord)

\* lines 1546-1569
PostBookingStep(S, p, m, ord) ==
    LET lim == check_post_booking_message_limit(S, p, ord)
    IN  IF lim[1] /\ ~lim[2]
        THEN Outcome([S EXCEPT !.tracking[p] = UpdateAllRows(@, "enquiry_sent", TRUE)],
                     Reply(p, "enquiry_redirect", 0, NULL), <<>>)
        ELSE LET S1 == IF S.tracking[p] # <<>>
                       THEN increment_post_booking_messages(S, p, ord) ELSE S
             IN  IF get_message_count(S1, p) = 1
                 THEN Outcome(S1, Reply(p, "first_contact", 0, NULL), <<>>)
                 ELSE ExtractionStep(S1, p, m, ord)

\* the handler with the cancellation tested before the unsafe content
incoming_sms_cancel_first(S, p, m, ord) ==
    IF is_number_blocked(S, p) THEN Outcome(S, NoReply(p), <<>>)
    ELSE LET S1 == log_message(S, p)
             pend == get_pending_confirmation(S1, p)
         IN  IF StartsWithEnquiry(m) THEN EnquiryTurn(S1, p)
             ELSE IF is_cancellation(m) THEN CancellationTurn(S1, p)
             ELSE IF detect_unsafe_requests(m) # {} THEN UnsafeTurn(S1, p)
             ELSE IF p \in AUTHORIZED_ADMIN_NUMBERS /\ StartsWithLocation(m)
                  THEN LocationTurn(S1, p, m)
             ELSE IF ContainsYes(m) /\ pend # <<>> THEN YesTurn(S1, p, m, pend[1], ord)
             ELSE IF IsDepositKeyword(m) /\ pend # <<>> THEN DepositTurn(S1, p, pend[1])
             ELSE PostBookingStep(S1, p, m, ord)

\* the whole handler: the outcome of the message m from the phone number p
incoming_sms(S, p, m, ord) ==
    IF is_number_blocked(S, p) THEN Outcome(S, NoReply(p), <<>>)
    ELSE LET S1 == log_message(S, p)
             pend == get_pending_confirmation(S1, p)
         IN  IF StartsWithEnquiry(m) THEN EnquiryTurn(S1, p)
             ELSE IF detect_unsafe_requests(m) # {} THEN UnsafeTurn(S1, p)
             ELSE IF is_cancellation(m) THEN CancellationTurn(S1, p)
             ELSE IF p \in AUTHORIZED_ADMIN_NUMBERS /\ StartsWithLocation(m)
                  THEN LocationTurn(S1, p, m)
             ELSE IF ContainsYes(m) /\ pend # <<>> THEN YesTurn(S1, p, m, pend[1], ord)
             ELSE IF IsDepositKeyword(m) /\ pend # <<>> THEN DepositTurn(S1, p, pend[1])
             ELSE PostBookingStep(S1, p, m, ord)

\* lines 1817-1845: the POST of the web form
booking_form(S, p, incall_outcall) ==
    LET booking_details ==
            [city |-> get_current_incall_location(S).city,
             date |-> "2025-12-20",
             time |-> "19:00",
             duration |-> "1 hour",
             experience_type |-> "GFE",
             incall_outcall |-> incall_outcall,
             outcall_address |-> IF incall_outcall = "Outcall"
                                 THEN "12 King St, Perth 6000" ELSE NULL]
    IN  Outcome(save_pending_confirmation(S, p, booking_details, "available",
                                          FALSE, NULL, NULL),
                Reply(p, "web_page", 0, NULL),
                <<Sms(p, "time_available")>>)

(***************************************************************************)
(* The state machine.                                                      *)
(***************************************************************************)
\* the request threads of the server (app.run serves each request in its
\* own thread)
Threads == {1, 2}

\* no call of polish_with_ai under way
NoPolish == [pc |-> "idle"]

\* the local variables of a request thread before it has read anything
NoLocals == [kind |-> "none", count |-> -1, attempts |-> -1]

Init ==
    /\ USE_POSTGRES \in BOOLEAN
    /\ blocked = {}
    /\ logged = [p \in Phones |-> 0]
    /\ pending = [p \in Phones |-> <<>>]
    /\ progress = [p \in Phones |-> <<>>]
    /\ tracking = [p \in Phones |-> <<>>]
    /\ deposits = [p \in Phones |-> <<>>]
    /\ reminders = [p \in Phones |-> <<>>]
    /\ location = DefaultLocation
    /\ reply = NoReply(ClientPhone)
    /\ outbox = <<>>
    /\ prompts = [p \in Phones |-> 0]
    /\ pc = [t \in Threads |-> "idle"]
    /\ local = [t \in Threads |-> NoLocals]
    /\ origin = <<>>
    /\ now = 0
    /\ delivered = [p \in Phones |-> <<>>]
    /\ polish = NoPolish
    /\ redirected = {}

\* the replies that ask the client for missing booking information
PromptKinds == {"random_request", "ask_missing"}

\* the prompts sent so far in the conversation, after the reply r
CountPrompt(r) ==
    [prompts EXCEPT ![r.to] =
        IF r.kind \in PromptKinds THEN (IF @ < MaxPrompts THEN @ + 1 ELSE @)
        ELSE IF r.kind \in {"booking_confirmed", "booking_cancelled"} THEN 0
        ELSE @]

\* the phone numbers sent the automated redirect of the fourth attempt since
\* their attempt count was last reset, after the reply r
MarkRedirected(r) ==
    IF r.kind = "fourth_message_enquiry" THEN redirected \cup {r.to}
    ELSE IF r.kind \in {"booking_confirmed", "booking_cancelled", "time_available"}
    THEN redirected \ {r.to}
    ELSE redirected

\* the store and the outputs after a request with outcome o
Apply(o) ==
    /\ \A p \in DOMAIN o.store.deposits : Len(o.store.deposits[p]) <= MaxDeposits
    /\ blocked' = o.store.blocked
    /\ logged' = o.store.logged
    /\ pending' = o.store.pending
    /\ progress' = o.store.progress
    /\ tracking' = o.store.tracking
    /\ deposits' = o.store.deposits
    /\ reminders' = o.store.reminders
    /\ location' = o.store.location
    /\ reply' = o.reply
    /\ outbox' = o.outbox
    /\ prompts' = CountPrompt(o.reply)
    /\ redirected' = MarkRedirected(o.reply)
    /\ UNCHANGED <<polish, USE_POSTGRES, pc, local, origin, now, delivered>>

\* the orders in which an unordered SELECT can give the rows of a phone number
Orders == IF USE_POSTGRES THEN {1, 2} ELSE {1}

\* POST /sms/incoming
Receive(p, m) ==
    \E o \in {incoming_sms(Store, p, m, ord) : ord \in Orders} : Apply(o)

InboundMessages == IF USE_POSTGRES THEN Messages ELSE SqliteMessages

\* POST /booking
SubmitForm(p, io) == Apply(booking_form(Store, p, io))

Next ==
    \/ \E p \in Phones, m \in InboundMessages : Receive(p, m)
    \/ \E p \in Phones, io \in {"Incall", "Outcall"} : SubmitForm(p, io)

Spec == Init /\ [][Next]_vars

(***************************************************************************)
(* Vocabulary of the properties.                                           *)
(***************************************************************************)
StoreVars ==
    <<blocked, logged, pending, progress, tracking, deposits, reminders, location>>

\* the stored attempt count of a phone number (the rows of a phone number
\* agree on it between requests)
AttemptCount(p) == get_booking_attempts(Store, p, 1)

\* the pending confirmation a request from p reads
PendingOf(p) == pending[p][Len(pending[p])]

\* the message is answered by a branch that precedes the YES test
EarlyBranch(p, m) ==
    \/ StartsWithEnquiry(m)
    \/ detect_unsafe_requests(m) # {}
    \/ is_cancellation(m)
    \/ p \in AUTHORIZED_ADMIN_NUMBERS /\ StartsWithLocation(m)

\* the message is answered by one of the keyword branches
KeywordBranch(p, m) ==
    \/ EarlyBranch(p, m)
    \/ pending[p] # <<>> /\ (ContainsYes(m) \/ IsDepositKeyword(m))

\* a YES turn with a pending confirmation and a usable name
YesWithName(p, m) ==
    /\ p \notin blocked
    /\ ~EarlyBranch(p, m)
    /\ ContainsYes(m)
    /\ pending[p] # <<>>
    /\ extract_name_from_yes_message(m) # NULL

\* the message carries city, date, time, duration, GFE and Incall together
CompleteIncall(m) ==
    LET d == extract_booking_details(m)
    IN  /\ \A i \in DOMAIN RequiredFields : d[RequiredFields[i]] # NULL
        /\ d.experience_type = "GFE"
        /\ d.incall_outcall = "Incall"

\* the messages with all the details of an Incall booking
CompleteMessages == {m \in Messages : CompleteIncall(m)}

\* the outcomes the handler can have for the message m from p in this state
Outcomes(p, m) == {incoming_sms(Store, p, m, ord) : ord \in Orders}

\* in the store S: a pending confirmation with status available, the attempt
\* count at 0
CapturedAvailableIn(S, p) ==
    /\ S.pending[p] # <<>>
    /\ S.pending[p][Len(S.pending[p])].booking_status = "available"
    /\ get_booking_attempts(S, p, 1) = 0

CapturedAvailable(p) == CapturedAvailableIn(Store, p)

\* the one-time redirect of the post-booking cap is due for the next message
RedirectDue(p) ==
    \E i \in DOMAIN tracking[p] :
        tracking[p][i].message_count >= 3 /\ ~tracking[p][i].enquiry_sent

(***************************************************************************)
(* C1.  Once a phone number is blocked, every later inbound message from   *)
(* it, whatever its text, gets the empty reply and changes no stored       *)
(* record, and the phone number stays blocked.                             *)
(***************************************************************************)
C1_BlockFinality ==
    [][\A p \in blocked :
          /\ p \in blocked'
          /\ \A m \in InboundMessages :
                Receive(p, m) =>
                    reply' = NoReply(p) /\ outbox' = <<>> /\ UNCHANGED StoreVars]_vars

\* a blocked phone number has sent a message and got the empty reply
C1_Witness == \E p \in blocked : reply = NoReply(p) /\ outbox = <<>> /\ logged[p] >= 1

(***************************************************************************)
(* C2.  For a phone number that never confirmed a booking, with no stored  *)
(* progress and no pending confirmation, a message with no booking         *)
(* information that matches no keyword follows the tier table: at an       *)
(* attempt count of 3 or less it is answered by a prompt and the count     *)
(* rises by exactly 1, at 4 it is answered by the fixed redirect to        *)
(* ENQUIRY, at 5 or more it blocks the phone number.                       *)
(***************************************************************************)
C2_TierTable ==
    [][\A p \in Phones :
          (/\ p \notin blocked
           /\ logged[p] >= 1
           /\ deposits[p] = <<>>
           /\ progress[p] = <<>>
           /\ pending[p] = <<>>
           /\ Receive(p, <<"hi">>))
          => LET a == AttemptCount(p)
             IN  /\ a <= 3 => reply'.kind = "random_request" /\ AttemptCount(p)' = a + 1
                 /\ a = 4 => reply'.kind = "fourth_message_enquiry"
                 /\ a >= 5 => reply'.kind = "fifth_message_block" /\ p \in blocked']_vars

C4_FirstContact ==
    [][\A p \in Phones : \A m \in InboundMessages :
          (/\ logged[p] = 0
           /\ pending[p] = <<>>
           /\ ~KeywordBranch(p, m)
           /\ Receive(p, m))
          => reply'.kind = "first_contact" /\ AttemptCount(p)' = 0]_vars

\* the first message of a phone number has been answered by the template
C4_Witness ==
    /\ reply.kind = "first_contact"
    /\ logged[reply.to] = 1
    /\ tracking[reply.to] = <<>>
    /\ pending[reply.to] = <<>>

(***************************************************************************)
(* C5.  When three or more prompts for missing information were sent to a  *)
(* phone number while it was completing a booking, the YES turn that       *)
(* follows the capture of the details is never answered by the             *)
(* confirmation without deposit.                                           *)
(***************************************************************************)
C5_ThreeStrikes ==
    [][\A p \in Phones :
          (/\ reply.kind = "time_available" /\ reply.to = p
           /\ reply'.kind = "booking_confirmed" /\ reply'.to = p)
          => prompts[p] < 3]_vars

\* the messages of a YES turn with a usable name
YesMessages ==
    {m \in Messages : ContainsYes(m) /\ extract_name_from_yes_message(m) # NULL}

\* the conditions of the mandatory deposit, for the message m from p
DepositConditions(p, m) ==
    \/ PendingOf(p).incall_outcall = "Outcall"
    \/ Cardinality({w \in PROFANITY_WORDS : Contains(m, w)}) >= 2
    \/ AttemptCount(p) >= 3
    \/ PendingOf(p).booking_status = "peacock_available"

(***************************************************************************)
(* C6.  A YES turn with a pending confirmation and a usable name takes the *)
(* mandatory-deposit outcome exactly when the pending confirmation is      *)
(* Outcall, or the message has two or more distinct profanity terms, or    *)
(* the attempt count is 3 or more, or the status is peacock_available; it  *)
(* takes the confirmation without deposit exactly when none of them holds. *)
(***************************************************************************)
C6_DepositDecision ==
    \A p \in Phones : \A m \in YesMessages \cap InboundMessages :
        YesWithName(p, m)
        => \A o \in Outcomes(p, m) :
              /\ o.reply.kind = "deposit_mandatory" <=> DepositConditions(p, m)
              /\ o.reply.kind = "booking_confirmed" <=> ~DepositConditions(p, m)

\* the three-strike rule alone has asked for the deposit of an Incall booking
C6_Witness ==
    /\ reply.kind = "deposit_mandatory"
    /\ reply.text = " (Due to multiple information requests)"
    /\ pending[reply.to] # <<>>
    /\ PendingOf(reply.to).incall_outcall = "Incall"
    /\ PendingOf(reply.to).booking_status = "deposit_required"
    /\ AttemptCount(reply.to) >= 3

(***************************************************************************)
(* C7.  At every attempt count, a YES turn with a usable name while the    *)
(* pending confirmation is Outcall sets its status to deposit_required and *)
(* answers with the mandatory-deposit message; it confirms no booking:     *)
(* the pending confirmation is kept, the stored progress is not cleared,   *)
(* no deposit request and no reminder is recorded.                         *)
(***************************************************************************)
C7_OutcallYes ==
    \A p \in Phones : \A m \in YesMessages \cap InboundMessages :
        (YesWithName(p, m) /\ PendingOf(p).incall_outcall = "Outcall")
        => \A o \in Outcomes(p, m) :
              /\ o.reply.kind = "deposit_mandatory"
              /\ o.store.pending[p] # <<>>
              /\ o.store.pending[p][Len(o.store.pending[p])].booking_status
                     = "deposit_required"
              /\ o.store.pending[p][Len(o.store.pending[p])].incall_outcall = "Outcall"
              /\ o.store.progress = progress
              /\ o.store.deposits = deposits
              /\ o.store.reminders = reminders

\* the YES of an Outcall booking at attempt count 0: the deposit is asked
\* for, the pending confirmation and the stored progress are still there
C7_Witness ==
    /\ reply.kind = "deposit_mandatory"
    /\ pending[reply.to] # <<>>
    /\ PendingOf(reply.to).incall_outcall = "Outcall"
    /\ PendingOf(reply.to).booking_status = "deposit_required"
    /\ progress[reply.to] # <<>>
    /\ AttemptCount(reply.to) = 0
    /\ deposits[reply.to] = <<>>

(***************************************************************************)
(* C8.  After a YES turn that confirms a booking without mandatory         *)
(* deposit, the phone number has no pending confirmation, its stored       *)
(* progress is empty, its message-tracking count is 0 with the             *)
(* enquiry-sent flag cleared, one deposit request is recorded for the      *)
(* booking, and a reminder is scheduled exactly when the booking is        *)
(* Incall.                                                                 *)
(***************************************************************************)
C8_AfterConfirmation ==
    [][\A p \in Phones :
          (reply'.kind = "booking_confirmed" /\ reply'.to = p)
          => /\ pending[p] # <<>>
             /\ pending'[p] = <<>>
             /\ progress'[p] = <<>>
             /\ tracking'[p] # <<>>
             /\ \A i \in DOMAIN tracking'[p] :
                   tracking'[p][i].message_count = 0 /\ ~tracking'[p][i].enquiry_sent
             /\ deposits'[p] =
                   Append(deposits[p], PendingOf(p).date \o " " \o PendingOf(p).time)
             /\ IF PendingOf(p).incall_outcall = "Incall"
                THEN /\ Len(reminders'[p]) = Len(reminders[p]) + 1
                     /\ SubSeq(reminders'[p], 1, Len(reminders[p])) = reminders[p]
                ELSE reminders'[p] = reminders[p]]_vars

\* an Incall booking has been confirmed without deposit
C8_Witness ==
    /\ reply.kind = "booking_confirmed"
    /\ pending[reply.to] = <<>>
    /\ progress[reply.to] = <<>>
    /\ Len(deposits[reply.to]) = 1
    /\ Len(reminders[reply.to]) = 1
    /\ logged[reply.to] >= 2

(***************************************************************************)
(* C9.  After a cancellation turn the phone number has no pending          *)
(* confirmation, its attempt count is 0 and its stored progress is empty.  *)
(***************************************************************************)
C9_AfterCancellation ==
    reply.kind = "booking_cancelled"
    => /\ pending[reply.to] = <<>>
       /\ AttemptCount(reply.to) = 0
       /\ progress[reply.to] = <<>>

(***************************************************************************)
(* C10.  The stored attempt count of a phone number never decreases,       *)
(* except by being reset to 0 or removed in a turn that captures all the   *)
(* required details, confirms the booking by YES or cancels.               *)
(***************************************************************************)
C10_CountNeverDecreases ==
    [][\A p \in Phones : \A before, after \in Orders :
          get_booking_attempts(Store, p, after)' < get_booking_attempts(Store, p, before)
          => /\ get_booking_attempts(Store, p, after)' = 0
             /\ reply'.to = p
             /\ reply'.kind \in {"time_available", "booking_confirmed",
                                 "booking_cancelled"}]_vars

\* the capture of all the details has reset the count of a phone number that
\* had been prompted
C10_Witness ==
    /\ reply.kind = "time_available"
    /\ prompts[reply.to] >= 1
    /\ tracking[reply.to] # <<>>
    /\ AttemptCount(reply.to) = 0

(***************************************************************************)
(* Concurrent requests.  Two request threads handle, at the same time, a   *)
(* message without booking information and without keyword from the same   *)
(* phone number, which has no stored progress and no pending confirmation. *)
(* Each statement below is one execute_query call of incoming_sms on that  *)
(* path (lines 1364-1370, 1546-1564, 1581-1623).                           *)
(***************************************************************************)
\* the message of the two requests
RaceMessage == <<"hi">>

\* the phone number after its first contact and k answered messages without
\* booking information
AfterPrompts(rows, k, r) ==
    [tracking |-> rows,
     logged |-> IF k + 1 < MaxLogged THEN k + 1 ELSE MaxLogged,
     prompts |-> IF k < MaxPrompts THEN k ELSE MaxPrompts,
     reply |-> r]

TwoRows(count, sent) ==
    <<[NewTrackingRow(count, NULL) EXCEPT !.enquiry_sent = sent],
      [NewTrackingRow(count, "1") EXCEPT !.enquiry_sent = sent]>>

\* the states of the phone number in which the two requests arrive
RaceStarts ==
    {[tracking |-> <<>>, logged |-> 0, prompts |-> 0, reply |-> NoReply(ClientPhone)],
     AfterPrompts(<<>>, 0, Reply(ClientPhone, "first_contact", 0, NULL)),
     AfterPrompts(<<NewTrackingRow(1, NULL)>>, 1,
                  Reply(ClientPhone, "random_request", 0, NULL)),
     AfterPrompts(TwoRows(2, FALSE), 2, Reply(ClientPhone, "random_request", 1, NULL)),
     AfterPrompts(TwoRows(4, FALSE), 3, Reply(ClientPhone, "random_request", 3, NULL)),
     AfterPrompts(TwoRows(4, TRUE), 3, Reply(ClientPhone, "enquiry_redirect", 0, NULL))}

InitRace ==
    /\ USE_POSTGRES \in BOOLEAN
    /\ blocked = {}
    /\ \E st \in RaceStarts :
          /\ logged = [p \in Phones |-> st.logged]
          /\ tracking = [p \in Phones |-> st.tracking]
          /\ prompts = [p \in Phones |-> st.prompts]
          /\ reply = st.reply
    /\ pending = [p \in Phones |-> <<>>]
    /\ progress = [p \in Phones |-> <<>>]
    /\ deposits = [p \in Phones |-> <<>>]
    /\ reminders = [p \in Phones |-> <<>>]
    /\ location = DefaultLocation
    /\ outbox = <<>>
    /\ pc = [t \in Threads |-> "is_number_blocked"]
    /\ local = [t \in Threads |-> NoLocals]
    /\ origin = Store
    /\ now = 0
    /\ delivered = [p \in Phones |-> <<>>]
    /\ polish = NoPolish
    /\ redirected = {}

\* the thread t goes to the statement to, with its locals changed to loc
Goto(t, to, loc) ==
    /\ pc' = [pc EXCEPT ![t] = to]
    /\ local' = [local EXCEPT ![t] = loc]
    /\ UNCHANGED <<redirected, polish, USE_POSTGRES, pending, progress, deposits, reminders, location,
                   reply, outbox, prompts, origin, now, delivered>>

\* the thread t returns the reply of the given kind
Return(t, kind) == Goto(t, "done", [local[t] EXCEPT !.kind = kind])

\* the phone number whose request the thread t serves: the two requests come
\* from the one client, and in a store with two identities the request of
\* thread 2 comes from the admin
PhoneOf(t) ==
    IF t = 2 /\ ADELLA_PHONE_NUMBER \in DOMAIN logged
    THEN ADELLA_PHONE_NUMBER ELSE ClientPhone

\* line 1364: is_number_blocked
StmtIsBlocked(t) ==
    /\ pc[t] = "is_number_blocked"
    /\ IF is_number_blocked(Store, PhoneOf(t))
       THEN Return(t, "none") ELSE Goto(t, "log_message", local[t])
    /\ UNCHANGED <<blocked, logged, tracking>>

\* line 1370: log_message
StmtLog(t) ==
    /\ pc[t] = "log_message"
    /\ logged' = log_message(Store, PhoneOf(t)).logged
    /\ Goto(t, "check_limit", local[t])
    /\ UNCHANGED <<blocked, tracking>>

\* lines 1546-1547: check_post_booking_message_limit
StmtCheckLimit(t) ==
    /\ pc[t] = "check_limit"
    /\ \E ord \in Orders :
          LET lim == check_post_booking_message_limit(Store, PhoneOf(t), ord)
          IN  IF lim[1] /\ ~lim[2]
              THEN Goto(t, "mark_enquiry", local[t])
              ELSE Goto(t, "any_row", local[t])
    /\ UNCHANGED <<blocked, logged, tracking>>

\* lines 1548-1554: the redirect and UPDATE ... SET enquiry_sent = 1
StmtMarkEnquiry(t) ==
    /\ pc[t] = "mark_enquiry"
    /\ tracking' = [tracking EXCEPT ![PhoneOf(t)] = UpdateAllRows(@, "enquiry_sent", TRUE)]
    /\ Return(t, "enquiry_redirect")
    /\ UNCHANGED <<blocked, logged>>

\* lines 1557-1558: SELECT 1 FROM message_tracking
StmtAnyRow(t) ==
    /\ pc[t] = "any_row"
    /\ IF tracking[PhoneOf(t)] # <<>>
       THEN Goto(t, "post_select", local[t])
       ELSE Goto(t, "message_count", local[t])
    /\ UNCHANGED <<blocked, logged, tracking>>

\* lines 992-997: the SELECT of increment_post_booking_messages
StmtPostSelect(t) ==
    /\ pc[t] = "post_select"
    /\ LET booked == SelectSeq(tracking[PhoneOf(t)], LAMBDA r : r.booking_id # NULL)
       IN  \E ord \in Orders :
              Goto(t, "post_write",
                   [local[t] EXCEPT !.count = IF booked # <<>>
                                               THEN FirstRow(booked, ord).message_count
                                               ELSE -1])
    /\ UNCHANGED <<blocked, logged, tracking>>

\* lines 998-1008: the UPDATE or INSERT of increment_post_booking_messages
StmtPostWrite(t) ==
    /\ pc[t] = "post_write"
    /\ tracking' = [tracking EXCEPT ![PhoneOf(t)] =
                       IF local[t].count >= 0
                       THEN UpdateAllRows(@, "message_count", local[t].count + 1)
                       ELSE Append(@, NewTrackingRow(1, "1"))]
    /\ Goto(t, "message_count", local[t])
    /\ UNCHANGED <<blocked, logged>>

\* lines 1562-1569: get_message_count and the first-contact reply
StmtMessageCount(t) ==
    /\ pc[t] = "message_count"
    /\ IF get_message_count(Store, PhoneOf(t)) = 1
       THEN Return(t, "first_contact") ELSE Goto(t, "get_attempts", local[t])
    /\ UNCHANGED <<blocked, logged, tracking>>

\* lines 1583-1623: get_booking_attempts and the choice of the reply
StmtGetAttempts(t) ==
    /\ pc[t] = "get_attempts"
    /\ \E ord \in Orders :
          LET attempts == get_booking_attempts(Store, PhoneOf(t), ord)
          IN  IF attempts >= 5
              THEN Goto(t, "block", [local[t] EXCEPT !.attempts = attempts])
              ELSE Goto(t, "attempts_select",
                        [local[t] EXCEPT !.attempts = attempts,
                                         !.kind = IF attempts >= 4
                                                  THEN "fourth_message_enquiry"
                                                  ELSE "random_request"])
    /\ UNCHANGED <<blocked, logged, tracking>>

\* line 1595: block_phone_number
StmtBlock(t) ==
    /\ pc[t] = "block"
    /\ blocked' = block_phone_number(Store, PhoneOf(t)).blocked
    /\ Return(t, "fifth_message_block")
    /\ UNCHANGED <<logged, tracking>>

\* line 972: the SELECT of increment_booking_attempts
StmtAttemptsSelect(t) ==
    /\ pc[t] = "attempts_select"
    /\ \E ord \in Orders :
          Goto(t, "attempts_write",
               [local[t] EXCEPT !.count = IF tracking[PhoneOf(t)] # <<>>
                                           THEN FirstRow(tracking[PhoneOf(t)], ord).message_count
                                           ELSE -1])
    /\ UNCHANGED <<blocked, logged, tracking>>

\* lines 974-983: the UPDATE or INSERT of increment_booking_attempts
StmtAttemptsWrite(t) ==
    /\ pc[t] = "attempts_write"
    /\ tracking' = [tracking EXCEPT ![PhoneOf(t)] =
                       IF local[t].count >= 0
                       THEN UpdateAllRows(@, "message_count", local[t].count + 1)
                       ELSE Append(@, NewTrackingRow(1, NULL))]
    /\ Goto(t, "done", local[t])
    /\ UNCHANGED <<blocked, logged>>

NextRace ==
    \E t \in Threads :
        \/ StmtIsBlocked(t)
        \/ StmtLog(t)
        \/ StmtCheckLimit(t)
        \/ StmtMarkEnquiry(t)
        \/ StmtAnyRow(t)
        \/ StmtPostSelect(t)
        \/ StmtPostWrite(t)
        \/ StmtMessageCount(t)
        \/ StmtGetAttempts(t)
        \/ StmtBlock(t)
        \/ StmtAttemptsSelect(t)
        \/ StmtAttemptsWrite(t)

SpecRace == InitRace /\ [][NextRace]_vars

\* the attempt counts the phone number can end with when the two messages
\* are handled one after the other and both are answered by a prompt
SerialCounts ==
    {get_booking_attempts(o2.store, ClientPhone, ord) :
        ord \in Orders,
        o2 \in UNION {{incoming_sms(o1.store, ClientPhone, RaceMessage, b) : b \in Orders} :
                        o1 \in {o \in {incoming_sms(origin, ClientPhone, RaceMessage, a) :
                                          a \in Orders} : o.reply.kind \in PromptKinds}}}

(***************************************************************************)
(* C11.  When two messages of the same phone number are handled at the     *)
(* same time and both are answered by a prompt for missing information,    *)
(* the attempt counter ends as if the two messages had been handled one    *)
(* after the other: no update of the counter is lost.  The phone number    *)
(* has had its first contact before the two messages arrive.               *)
(***************************************************************************)
C11_NoLostUpdate ==
    (/\ origin.logged[ClientPhone] >= 1
     /\ \A t \in Threads : pc[t] = "done" /\ local[t].kind \in PromptKinds)
    => \A ord \in Orders : get_booking_attempts(Store, ClientPhone, ord) \in SerialCounts

(***************************************************************************)
(* The reminder check (GET /check-reminders, lines 1225-1286, 2495-2502).  *)
(* The wall clock counts slots of five minutes; the reminders are those of *)
(* confirmed Incall bookings.                                              *)
(***************************************************************************)
\* datetime.strptime(booking_dt_str, '%A %d/%m/%Y %I:%M%p'): the slot of the
\* booking, -1 when strptime raises ValueError
ParseBookingDatetime(booking_dt_str) ==
    IF booking_dt_str = "Friday 20/12/2025 7:00PM" THEN BookingSlot ELSE -1

\* the window from 50 to 70 minutes
InWindow_wide(booking_slot, at) ==
    LET time_until_booking == (booking_slot - at) * 300
    IN  3000 <= time_until_booking /\ time_until_booking <= 4200

\* 3300 <= time_until_booking <= 3900, in seconds
InWindow(booking_slot, at) ==
    LET time_until_booking == (booking_slot - at) * 300
    IN  3300 <= time_until_booking /\ time_until_booking <= 3900

\* the reminder row is one the loop sends a message for at the time at
Due(r, at) ==
    /\ ParseBookingDatetime(r.booking_datetime) # -1
    /\ InWindow(ParseBookingDatetime(r.booking_datetime), at)

\* the outcome of an invocation: the rows after it, the rows it called
\* send_sms for, the rows for which send_sms returned True
Checked(rows, attempted, accepted) ==
    [rows |-> [i \in DOMAIN rows |->
                  IF i \in accepted THEN [rows[i] EXCEPT !.sent = TRUE] ELSE rows[i]],
     attempted |-> attempted,
     accepted |-> accepted]

\* check_and_send_room_details that selects the rows whatever their sent flag
check_and_send_room_details_all_rows(rows, at, oks) ==
    LET attempted == {i \in DOMAIN rows : Due(rows[i], at)}
    IN  Checked(rows, attempted, {i \in attempted : oks[i]})

\* check_and_send_room_details at the time at, send_sms returning oks[i] for
\* the row i: the SELECT gives the rows with sent = 0, the loop sends for
\* those in their window and marks those whose send succeeded
check_and_send_room_details(rows, at, oks) ==
    LET unsent == {i \in DOMAIN rows : ~rows[i].sent}
        attempted == {i \in unsent : Due(rows[i], at)}
    IN  Checked(rows, attempted, {i \in attempted : oks[i]})

\* the reminder rows of confirmed Incall bookings: made by SMS, made on the
\* web form
ReminderOf(booking_datetime, city) ==
    [client_name |-> "John", booking_datetime |-> booking_datetime, city |-> city,
     incall_outcall |-> "Incall", outcall_address |-> NULL, sent |-> FALSE]

ReminderRows ==
    {ReminderOf("Friday 20/12/2025 7:00PM", "Perth"),
     ReminderOf("2025-12-20 19:00", "Adelaide")}

ReminderLists ==
    {<<>>} \cup {<<r>> : r \in ReminderRows}
           \cup {<<r1, r2>> : r1 \in ReminderRows, r2 \in ReminderRows}

InitReminders ==
    /\ USE_POSTGRES \in BOOLEAN
    /\ blocked = {}
    /\ logged = [p \in Phones |-> MaxLogged]
    /\ pending = [p \in Phones |-> <<>>]
    /\ progress = [p \in Phones |-> <<>>]
    /\ tracking = [p \in Phones |-> <<NewTrackingRow(0, NULL)>>]
    /\ \E rows \in ReminderLists :
          /\ reminders = [p \in Phones |-> rows]
          /\ deposits = [p \in Phones |-> [i \in DOMAIN rows |-> rows[i].booking_datetime]]
          /\ delivered = [p \in Phones |-> [i \in DOMAIN rows |-> 0]]
          /\ polish = NoPolish
          /\ redirected = {}
    /\ location = DefaultLocation
    /\ reply = Reply(ClientPhone, "booking_confirmed", 0, NULL)
    /\ outbox = <<Sms(ClientPhone, "deposit_non_mandatory")>>
    /\ prompts = [p \in Phones |-> 0]
    /\ pc = [t \in Threads |-> "idle"]
    /\ local = [t \in Threads |-> NoLocals]
    /\ origin = <<>>
    /\ now = 0

\* what no step of the reminder check changes
ReminderFrame ==
    UNCHANGED <<redirected, polish, USE_POSTGRES, blocked, logged, pending, progress, tracking, deposits,
                location, prompts, origin>>

\* GET /check-reminders, one invocation after the other
CheckReminders ==
    \E p \in Phones : \E oks \in [DOMAIN reminders[p] -> BOOLEAN] :
        LET c == check_and_send_room_details(reminders[p], now, oks)
        IN  /\ reminders' = [reminders EXCEPT ![p] = c.rows]
            /\ delivered' = [delivered EXCEPT
                                ![p] = [i \in DOMAIN @ |->
                                           IF i \in c.accepted THEN @[i] + 1 ELSE @[i]]]
            /\ reply' = Reply(p, "reminders_checked", 0, NULL)
            /\ outbox' = [i \in 1..Cardinality(c.attempted) |-> Sms(p, "room_details")]
        /\ UNCHANGED <<now, pc, local>>
        /\ ReminderFrame

\* five minutes pass
Tick ==
    /\ now < MaxNow
    /\ now' = now + 1
    /\ UNCHANGED <<reminders, delivered, reply, outbox, pc, local>>
    /\ ReminderFrame

NextReminders == CheckReminders \/ Tick

SpecReminders == InitReminders /\ [][NextReminders]_vars

(***************************************************************************)
(* C13.  Over reminder checks invoked one after the other: once a          *)
(* reminder is marked sent, no later invocation sends a message for it,    *)
(* and a reminder is marked sent only by an invocation whose send          *)
(* succeeded.                                                              *)
(***************************************************************************)
C13_SentOnce ==
    [][\A p \in Phones : \A i \in DOMAIN reminders[p] :
          /\ reminders[p][i].sent
             => reminders'[p][i].sent /\ delivered'[p][i] = delivered[p][i]
          /\ (~reminders[p][i].sent /\ reminders'[p][i].sent)
             => delivered'[p][i] = delivered[p][i] + 1]_vars

\* a reminder was sent and marked, and a later invocation inside the window
\* has sent nothing for it
C13_Witness ==
    /\ reply.kind = "reminders_checked"
    /\ outbox = <<>>
    /\ \E p \in Phones : \E i \in DOMAIN reminders[p] :
          /\ reminders[p][i].sent
          /\ delivered[p][i] = 1
          /\ Due(reminders[p][i], now)

(***************************************************************************)
(* The reminder check invoked by two callers at the same time.  The steps  *)
(* of a caller are the SELECT of the unsent rows (line 1229), and for each *)
(* selected row in its window the send_sms call (line 1279) and the UPDATE *)
(* that marks the row (line 1281).                                         *)
(***************************************************************************)
\* the locals of a caller: the rows it still has to send for, the time it read
Batch(todo, at) == [todo |-> todo, at |-> at]

InitReminderRace ==
    /\ USE_POSTGRES \in BOOLEAN
    /\ blocked = {}
    /\ logged = [p \in Phones |-> MaxLogged]
    /\ pending = [p \in Phones |-> <<>>]
    /\ progress = [p \in Phones |-> <<>>]
    /\ tracking = [p \in Phones |-> <<NewTrackingRow(0, NULL)>>]
    /\ \E rows \in ReminderLists :
          /\ reminders = [p \in Phones |-> rows]
          /\ deposits = [p \in Phones |-> [i \in DOMAIN rows |-> rows[i].booking_datetime]]
          /\ delivered = [p \in Phones |-> [i \in DOMAIN rows |-> 0]]
          /\ polish = NoPolish
          /\ redirected = {}
    /\ location = DefaultLocation
    /\ reply = Reply(ClientPhone, "booking_confirmed", 0, NULL)
    /\ outbox = <<Sms(ClientPhone, "deposit_non_mandatory")>>
    /\ prompts = [p \in Phones |-> 0]
    /\ pc = [t \in Threads |-> "select_unsent"]
    /\ local = [t \in Threads |-> Batch(<<>>, 0)]
    /\ origin = <<>>
    /\ now \in 0..MaxNow

\* the caller t goes to the statement to with the rows todo left
Continue(t, to, todo) ==
    /\ pc' = [pc EXCEPT ![t] = to]
    /\ local' = [local EXCEPT ![t] = Batch(todo, local[t].at)]
    /\ UNCHANGED <<now, reply, outbox>>
    /\ ReminderFrame

\* the unsent rows in their window at the time at, from the row i on
RECURSIVE IndicesFrom(_, _, _)
IndicesFrom(rows, i, at) ==
    IF i > Len(rows) THEN <<>>
    ELSE (IF ~rows[i].sent /\ Due(rows[i], at) THEN <<i>> ELSE <<>>)
         \o IndicesFrom(rows, i + 1, at)

\* lines 1229-1236: SELECT * FROM room_detail_reminders WHERE sent = 0, and
\* the clock read; the rows outside their window have no statement
StmtSelectUnsent(t) ==
    /\ pc[t] = "select_unsent"
    /\ LET todo == IndicesFrom(reminders[ClientPhone], 1, now)
       IN  /\ pc' = [pc EXCEPT ![t] = IF todo = <<>> THEN "done" ELSE "send_sms"]
           /\ local' = [local EXCEPT ![t] = Batch(todo, now)]
    /\ UNCHANGED <<now, reply, outbox, reminders, delivered>>
    /\ ReminderFrame

\* line 1279: send_sms for the first row left; it returns True or False
StmtSendSms(t) ==
    /\ pc[t] = "send_sms"
    /\ LET i == Head(local[t].todo)
           rest == Tail(local[t].todo)
       IN  \E ok \in BOOLEAN :
              IF ok
              THEN /\ delivered' = [delivered EXCEPT ![ClientPhone][i] = @ + 1]
                   /\ Continue(t, "mark_sent", local[t].todo)
              ELSE /\ delivered' = delivered
                   /\ Continue(t, IF rest = <<>> THEN "done" ELSE "send_sms", rest)
    /\ UNCHANGED reminders

\* line 1281: UPDATE room_detail_reminders SET sent = 1 WHERE id = %s
StmtMarkSent(t) ==
    /\ pc[t] = "mark_sent"
    /\ LET i == Head(local[t].todo)
           rest == Tail(local[t].todo)
       IN  /\ reminders' = [reminders EXCEPT ![ClientPhone][i].sent = TRUE]
           /\ Continue(t, IF rest = <<>> THEN "done" ELSE "send_sms", rest)
    /\ UNCHANGED delivered

NextReminderRace ==
    \E t \in Threads : StmtSelectUnsent(t) \/ StmtSendSms(t) \/ StmtMarkSent(t)

SpecReminderRace == InitReminderRace /\ [][NextReminderRace]_vars

(***************************************************************************)
(* C12.  When the reminder check is invoked by two callers at the same     *)
(* time while a reminder is unsent and inside its window, the message of   *)
(* the reminder is sent at most once.                                      *)
(***************************************************************************)
C12_SentAtMostOnce ==
    \A p \in Phones : \A i \in DOMAIN delivered[p] : delivered[p][i] <= 1

(***************************************************************************)
(* Stored progress.                                                        *)
(***************************************************************************)
\* the details extract_booking_details gives for each message
Extracted == [m \in Messages |-> extract_booking_details(m)]

\* the replies of the turns that run extract_booking_details and the merge
MergeKinds == {"ask_missing", "time_available", "fourth_message_enquiry",
               "fifth_message_block"}

(***************************************************************************)
(* C14.  A field of the stored progress that is set keeps its value in     *)
(* every turn, unless the message of the turn yields a non-empty extracted *)
(* value for the same field, and then it takes that value; an empty        *)
(* extracted value never clears or changes a set field, until the          *)
(* confirmation of the booking clears the progress.                        *)
(***************************************************************************)
C14_SetFieldKept ==
    \A p \in Phones : \A m \in InboundMessages :
        progress[p] # <<>>
        => \A o \in Outcomes(p, m) :
              \/ o.reply.kind = "booking_confirmed" /\ o.store.progress[p] = <<>>
              \/ /\ o.store.progress[p] # <<>>
                 /\ \A f \in DOMAIN NoDetails :
                       progress[p][1][f] # NULL
                       => o.store.progress[p][1][f] =
                             IF o.reply.kind \in MergeKinds /\ Extracted[m][f] # NULL
                             THEN Extracted[m][f]
                             ELSE progress[p][1][f]

\* the stored Incall has been replaced by the extracted Outcall while the
\* other set fields kept their values
C14_Witness ==
    /\ reply.kind = "ask_missing"
    /\ progress[reply.to] # <<>>
    /\ progress[reply.to][1].incall_outcall = "Outcall"
    /\ progress[reply.to][1].city = "Perth"
    /\ progress[reply.to][1].experience_type = "GFE"

(***************************************************************************)
(* The merge of booking progress as a function: the stored progress is any *)
(* row with at least one field set, and the steps merge it with itself and *)
(* with the update that has no field set.                                  *)
(***************************************************************************)
\* a value per field of the progress
SampleDetails ==
    [city |-> "Perth", date |-> "Friday 20/12/2025", time |-> "7:00PM",
     duration |-> "1 hour", experience_type |-> "GFE", incall_outcall |-> "Outcall",
     outcall_address |-> "12 King St, Perth 6000"]

\* the rows of booking_progress over these values, at least one field set
ProgressRows ==
    {[f \in DOMAIN NoDetails |-> IF f \in set THEN SampleDetails[f] ELSE NULL] :
        set \in (SUBSET DOMAIN NoDetails) \ {{}}}

InitMerge ==
    /\ USE_POSTGRES \in BOOLEAN
    /\ blocked = {}
    /\ logged = [p \in Phones |-> MaxLogged]
    /\ pending = [p \in Phones |-> <<>>]
    /\ \E row \in ProgressRows : progress = [p \in Phones |-> <<row>>]
    /\ tracking = [p \in Phones |-> <<NewTrackingRow(1, NULL)>>]
    /\ deposits = [p \in Phones |-> <<>>]
    /\ reminders = [p \in Phones |-> <<>>]
    /\ location = DefaultLocation
    /\ reply = Reply(ClientPhone, "ask_missing", 0, NULL)
    /\ outbox = <<>>
    /\ prompts = [p \in Phones |-> 1]
    /\ pc = [t \in Threads |-> "idle"]
    /\ local = [t \in Threads |-> NoLocals]
    /\ origin = <<>>
    /\ now = 0
    /\ delivered = [p \in Phones |-> <<>>]
    /\ polish = NoPolish
    /\ redirected = {}

\* the stored progress of p after the merge of update into it
Merge(p, update) ==
    /\ progress' = MergeProgress(Store, p, update).progress
    /\ UNCHANGED <<redirected, polish, USE_POSTGRES, blocked, logged, pending, tracking, deposits,
                   reminders, location, reply, outbox, prompts, pc, local, origin,
                   now, delivered>>

\* the stored progress merged into itself
MergeItself(p) == Merge(p, progress[p][1])

\* the update with no field set merged into the stored progress
MergeEmpty(p) == Merge(p, NoDetails)

NextMerge == \E p \in Phones : MergeItself(p) \/ MergeEmpty(p)

SpecMerge == InitMerge /\ [][NextMerge]_vars

(***************************************************************************)
(* C15.  The merge of progress is idempotent and has the update with no    *)
(* field set as identity: merging a stored progress into itself, and       *)
(* merging the all-empty update into it, leave it as it was.               *)
(***************************************************************************)
C15_MergeIdempotent == [][progress' = progress]_vars


(***************************************************************************)
(* C16.  Pending confirmations of one identity.                            *)
(***************************************************************************)
\* C16: after any sequence of sequentially handled SMS turns and web-form
\* submissions every phone number has at most one pending confirmation row
C16_OnePending == \A p \in Phones : Len(pending[p]) <= 1

\* a pending confirmation saved over an existing one: the YES turn that asks
\* for the deposit saves again the pending confirmation it read
C16_Witness ==
    \E p \in Phones :
        /\ reply.kind = "deposit_mandatory"
        /\ Len(pending[p]) = 1
        /\ pending[p][1].booking_status = "deposit_required"


(***************************************************************************)
(* C17.  The YES turn without a usable name.                               *)
(***************************************************************************)
\* YES messages that leave no usable name once the word yes is taken out:
\* nothing, one character, or one of the filler words
NamelessYes ==
    { <<"yes">>, <<"J", "yes">>, <<"ok", "yes">>, <<"yes", "yeah">>,
      <<"yep", "yes">>, <<"yes", "sure">> }

\* C17: a YES turn with a pending confirmation and no usable name is answered
\* with the ask-for-name prompt, sends no SMS, and leaves the pending
\* confirmations, the booking progress and the tracking rows (the attempt
\* counter) as they were
C17_NeedNameKeepsPending ==
    \A p \in Phones :
        (p \notin blocked /\ pending[p] # <<>>)
        => \A m \in NamelessYes : \A o \in Outcomes(p, m) :
              /\ o.reply.kind = "need_name"
              /\ o.outbox = <<>>
              /\ o.store.pending = pending
              /\ o.store.progress = progress
              /\ o.store.tracking = tracking

\* the ask-for-name prompt was the reply and the pending confirmation is
\* still there
C17_Witness ==
    /\ reply.kind = "need_name"
    /\ pending[reply.to] # <<>>


(***************************************************************************)
(* C18.  The post-booking redirect.                                        *)
(***************************************************************************)
\* the redirect has been sent for the tracking record of p
EnquirySent(p) == \E i \in DOMAIN tracking[p] : tracking[p][i].enquiry_sent

\* the replies of the turns that replace the tracking record of an identity:
\* the confirmation of a booking and the cancellation
RecordEnds == {"booking_confirmed", "booking_cancelled"}

\* C18: the redirect to ENQUIRY is sent at most once for one tracking
\* record: a turn that sends it finds the record without the mark and
\* leaves every row marked, and a marked record stays marked until a
\* confirmation or a cancellation replaces it
C18_RedirectOnce ==
    [][\A p \in Phones :
          /\ (reply'.kind = "enquiry_redirect" /\ reply'.to = p)
             => /\ ~EnquirySent(p)
                /\ tracking'[p] # <<>>
                /\ \A i \in DOMAIN tracking'[p] : tracking'[p][i].enquiry_sent
          /\ (EnquirySent(p) /\ reply'.kind \notin RecordEnds)
             => \A i \in DOMAIN tracking'[p] : tracking'[p][i].enquiry_sent]_vars

\* a booking was confirmed, the redirect was sent, and a later message was
\* answered with something else
C18_Witness ==
    \E p \in Phones :
        /\ deposits[p] # <<>>
        /\ EnquirySent(p)
        /\ reply.to = p
        /\ reply.kind \in {"random_request", "fourth_message_enquiry"}


(***************************************************************************)
(* C19.  The message after a confirmed booking.                            *)
(***************************************************************************)
\* the messages no keyword branch answers, whatever is pending
PlainMessages ==
    {m \in Messages : \A p \in Phones :
        ~EarlyBranch(p, m) /\ ~ContainsYes(m) /\ ~IsDepositKeyword(m)}

\* C19: right after the confirmation of a booking, a message that no keyword
\* branch answers and that does not trigger the redirect gets no reply and
\* no SMS, blocks nobody, and adds one to the stored count and no more
C19_SilentAfterConfirmation ==
    \A p \in Phones :
        (/\ reply.kind = "booking_confirmed" /\ reply.to = p
         /\ p \notin blocked
         /\ ~RedirectDue(p))
        => \A m \in PlainMessages : \A o \in Outcomes(p, m) :
              /\ o.reply.kind = "none"
              /\ o.outbox = <<>>
              /\ o.store.blocked = blocked
              /\ \A ord \in Orders :
                    get_booking_attempts(o.store, p, ord) <= AttemptCount(p) + 1


(***************************************************************************)
(* The tone rewrite, polish_with_ai (lines 572-676).                       *)
(*                                                                         *)
(* A text is its length in characters and, for each refusal marker the     *)
(* safety checks look for, the offset at which the first occurrence of     *)
(* the marker in the lower-cased text ends (0 when the text has none):     *)
(* marker in text[:n] holds when that offset is between 1 and n.           *)
(***************************************************************************)
\* len(message) of the template handed to polish_with_ai
TemplateLen == 60

\* the longest rewrite a rewriting service returns
MaxRewriteLen == 95

\* the largest repetition_count of a call
MaxRepetition == 5

\* polished.lower()[:30], lines 640 and 667
SorrySlice == 30

\* polished.lower()[:50], line 642
RefusalSlice == 50

Markers == {"cant", "sorry", "cannot", "unable"}

Template ==
    [body |-> "template", len |-> TemplateLen,
     cant |-> 0, sorry |-> 0, cannot |-> 0, unable |-> 0]

\* the texts a rewriting service can return: any length, each marker absent,
\* ending inside its slice or ending just after it; two markers do not end
\* at the same offset
Rewrites ==
    {t \in [body : {"rewrite"}, len : 0..MaxRewriteLen,
            cant : {0, SorrySlice},
            sorry : {0, SorrySlice - 1, SorrySlice + 1},
            cannot : {0, RefusalSlice, RefusalSlice + 1},
            unable : {0, RefusalSlice - 1, RefusalSlice + 2}] :
        \A k \in Markers : t[k] <= t.len}

\* marker in text[:n], for the offset at which the marker ends
InSlice(end, n) == end # 0 /\ end <= n

\* len(polished) < len(message) * 0.7
TooShort(message, polished) == 10 * polished.len < 7 * message.len

\* len(polished) > len(message) * 1.5
TooLong(message, polished) == 10 * polished.len > 15 * message.len

\* lines 586-596
tone_instruction(repetition_count) ==
    IF repetition_count <= 1 THEN "warmer and friendlier"
    ELSE IF repetition_count <= 3 THEN "more direct and businesslike"
    ELSE "firm and to-the-point"

\* lines 633-645: what the Claude branch returns for the rewrite polished
claude_safety_checks(message, polished) ==
    IF TooShort(message, polished) THEN message
    ELSE IF TooLong(message, polished) THEN message
    ELSE IF polished.cant # 0 \/ InSlice(polished.sorry, SorrySlice) THEN message
    ELSE IF \/ InSlice(polished.cannot, RefusalSlice)
            \/ InSlice(polished.unable, RefusalSlice) THEN message
    ELSE polished

\* lines 663-671: what the Gemini branch returns for the rewrite polished
gemini_safety_checks(message, polished) ==
    IF TooShort(message, polished) \/ TooLong(message, polished) THEN message
    ELSE IF polished.cant # 0 \/ InSlice(polished.sorry, SorrySlice) THEN message
    ELSE polished

\* a call of polish_with_ai with its arguments and the clients of the process
PolishCall(use_ai, repetition_count, claude_client, gemini_model) ==
    [pc |-> "start", message |-> Template, use_ai |-> use_ai,
     repetition_count |-> repetition_count,
     claude_client |-> claude_client, gemini_model |-> gemini_model,
     tone |-> NULL, backend |-> "none", polished |-> Template,
     result |-> Template]

InitPolish ==
    /\ USE_POSTGRES = FALSE
    /\ blocked = {}
    /\ logged = [p \in Phones |-> 0]
    /\ pending = [p \in Phones |-> <<>>]
    /\ progress = [p \in Phones |-> <<>>]
    /\ tracking = [p \in Phones |-> <<>>]
    /\ deposits = [p \in Phones |-> <<>>]
    /\ reminders = [p \in Phones |-> <<>>]
    /\ location = DefaultLocation
    /\ reply = NoReply(ClientPhone)
    /\ outbox = <<>>
    /\ prompts = [p \in Phones |-> 0]
    /\ pc = [t \in Threads |-> "idle"]
    /\ local = [t \in Threads |-> NoLocals]
    /\ origin = <<>>
    /\ now = 0
    /\ delivered = [p \in Phones |-> <<>>]
    /\ redirected = {}
    /\ \E use_ai, claude_client, gemini_model \in BOOLEAN :
         \E repetition_count \in 0..MaxRepetition :
            polish = PolishCall(use_ai, repetition_count, claude_client, gemini_model)

PolishFrame ==
    UNCHANGED <<redirected, USE_POSTGRES, blocked, logged, pending, progress, tracking, deposits,
                reminders, location, reply, outbox, prompts, pc, local, origin,
                now, delivered>>

PolishReturn(backend, polished, result) ==
    /\ polish' = [polish EXCEPT !.pc = "returned", !.backend = backend,
                                !.polished = polished, !.result = result]
    /\ PolishFrame

\* lines 590-591: AI disabled or no client
PolishDisabled ==
    /\ polish.pc = "start"
    /\ ~polish.use_ai \/ ~(polish.claude_client \/ polish.gemini_model)
    /\ PolishReturn("none", polish.message, polish.message)

\* lines 593-603
PolishTone ==
    /\ polish.pc = "start"
    /\ polish.use_ai /\ (polish.claude_client \/ polish.gemini_model)
    /\ polish' = [polish EXCEPT !.pc = "claude",
                                !.tone = tone_instruction(polish.repetition_count)]
    /\ PolishFrame

\* lines 606-645: Claude answers with the text polished
ClaudeAnswers(polished) ==
    /\ polish.pc = "claude"
    /\ polish.claude_client
    /\ PolishReturn("claude", polished, claude_safety_checks(polish.message, polished))

\* lines 606-648: no Claude client, or the call raises
ClaudeFails ==
    /\ polish.pc = "claude"
    /\ polish' = [polish EXCEPT !.pc = "gemini"]
    /\ PolishFrame

\* lines 650-671: Gemini answers with the text polished
GeminiAnswers(polished) ==
    /\ polish.pc = "gemini"
    /\ polish.gemini_model
    /\ PolishReturn("gemini", polished, gemini_safety_checks(polish.message, polished))

\* lines 650-676: no Gemini model, or the call raises: the original message
GeminiFails ==
    /\ polish.pc = "gemini"
    /\ PolishReturn("none", polish.message, polish.message)

NextPolish ==
    \/ PolishDisabled
    \/ PolishTone
    \/ \E polished \in Rewrites \cup {Template} : ClaudeAnswers(polished)
    \/ ClaudeFails
    \/ \E polished \in Rewrites \cup {Template} : GeminiAnswers(polished)
    \/ GeminiFails

SpecPolish == InitPolish /\ [][NextPolish]_vars

(***************************************************************************)
(* C20.  The safety checks of the tone rewrite.                            *)
(***************************************************************************)
\* the rewrite is shorter than 70% or longer than 150% of the original
FailsLengthRatio(message, polished) ==
    TooShort(message, polished) \/ TooLong(message, polished)

\* the rewrite has an apology or refusal marker near its start
FailsRefusalMarker(polished) ==
    \/ InSlice(polished.sorry, SorrySlice)
    \/ InSlice(polished.cant, SorrySlice)
    \/ InSlice(polished.cannot, RefusalSlice)
    \/ InSlice(polished.unable, RefusalSlice)

\* C20: when a rewriting backend, Claude or Gemini, has returned a text that
\* fails the length-ratio check or the refusal-marker check, the result of
\* polish_with_ai is the original message
C20_FailedRewriteGivesOriginal ==
    (/\ polish.pc = "returned"
     /\ polish.backend \in {"claude", "gemini"}
     /\ \/ FailsLengthRatio(polish.message, polish.polished)
        \/ FailsRefusalMarker(polish.polished))
    => polish.result = polish.message


(***************************************************************************)
(* C21.  The result of the tone rewrite.                                   *)
(***************************************************************************)
\* C21: a returned call of polish_with_ai gives the original message when
\* no backend answered (polishing disabled, no backend configured, every
\* call raising), and in every case gives the original message or a
\* rewrite that passes the length-ratio and refusal-marker checks
C21_OriginalOrCheckedRewrite ==
    polish.pc = "returned"
    => /\ polish.backend = "none" => polish.result = polish.message
       /\ \/ polish.result = polish.message
          \/ /\ polish.result = polish.polished
             /\ ~FailsLengthRatio(polish.message, polish.polished)
             /\ ~FailsRefusalMarker(polish.polished)


(***************************************************************************)
(* The extraction step on any stored progress: a phone number that has     *)
(* been prompted once, before or after a confirmed booking, with any       *)
(* fields of its booking progress stored, sends texts without booking      *)
(* information and texts that add a field.                                 *)
(***************************************************************************)
\* the texts sent: no booking information; the word outcall
AskTexts == { <<"hi">>, <<"outcall">> }

InitAsk ==
    /\ USE_POSTGRES \in BOOLEAN
    /\ blocked = {}
    /\ logged = [p \in Phones |-> MaxLogged]
    /\ pending = [p \in Phones |-> <<>>]
    /\ \/ progress = [p \in Phones |-> <<>>]
       \/ \E row \in ProgressRows : progress = [p \in Phones |-> <<row>>]
    /\ \/ tracking = [p \in Phones |-> <<NewTrackingRow(1, NULL)>>]
       \/ tracking = [p \in Phones |-> TwoRows(1, FALSE)]
    /\ deposits = [p \in Phones |-> <<>>]
    /\ reminders = [p \in Phones |-> <<>>]
    /\ location = DefaultLocation
    /\ reply = Reply(ClientPhone, "random_request", 0, NULL)
    /\ outbox = <<>>
    /\ prompts = [p \in Phones |-> 1]
    /\ pc = [t \in Threads |-> "idle"]
    /\ local = [t \in Threads |-> NoLocals]
    /\ origin = <<>>
    /\ now = 0
    /\ delivered = [p \in Phones |-> <<>>]
    /\ polish = NoPolish
    /\ redirected = {}

NextAsk == \E p \in Phones, m \in AskTexts : Receive(p, m)

SpecAsk == InitAsk /\ [][NextAsk]_vars

(***************************************************************************)
(* C22.  The wording of the ask for missing fields.                        *)
(***************************************************************************)
\* the names of the fields in the fixed order of the ask message
FixedOrder ==
    <<"City", "Date", "Time", "Duration", "Experience (GFE/PSE)",
      "Incall or Outcall", "Outcall address">>

\* the fields missing in the details d: the empty ones of the six required
\* fields, and the outcall address of an Outcall booking
MissingSet(d) ==
    {f \in {"city", "date", "time", "duration", "experience_type", "incall_outcall"} :
        d[f] = NULL}
    \cup (IF d.incall_outcall = "Outcall" /\ d.outcall_address = NULL
          THEN {"outcall_address"} ELSE {})

\* the names of the missing fields in the fixed order
RECURSIVE NamesFrom(_, _)
NamesFrom(i, set) ==
    IF i > Len(FieldNames) THEN <<>>
    ELSE (IF FieldNames[i] \in set THEN <<FixedOrder[i]>> ELSE <<>>)
         \o NamesFrom(i + 1, set)

\* the names joined by ", "
RECURSIVE Listed(_)
Listed(names) ==
    IF Len(names) = 1 THEN names[1] ELSE names[1] \o ", " \o Listed(Tail(names))

\* the wording for the names of the missing fields
Wording(names) ==
    CASE Len(names) = 1 -> "I just need your " \o names[1]
      [] Len(names) = 2 -> "I just need your " \o names[1] \o " and " \o names[2]
      [] Len(names) >= 3 -> "I still need: " \o Listed(names)

\* the details the extraction step looks at for the message m from p: the
\* stored progress with the fields of the message merged in
DetailsAt(p, m) == MergedDetails(Extracted[m], get_booking_progress(Store, p))

\* C22: every ask for missing fields, in the branch without new information
\* and in the branch after the merge, names the missing fields in the fixed
\* order with the wording for their number
C22_AskWording ==
    \A p \in Phones : \A m \in AskTexts : \A o \in Outcomes(p, m) :
        o.reply.kind = "ask_missing"
        => /\ MissingSet(DetailsAt(p, m)) # {}
           /\ o.reply.text = Wording(NamesFrom(1, MissingSet(DetailsAt(p, m))))

\* an ask with one, with two and with more missing fields has been sent:
\* here the one for city and date
C22_Witness ==
    /\ reply.kind = "ask_missing"
    /\ reply.text = "I just need your City and Date"


(***************************************************************************)
(* Two identities: a client and an admin on the allowlist, each with its   *)
(* own rows in every table, their requests handled one after the other.    *)
(***************************************************************************)
TwoPhones == {ClientPhone, ADELLA_PHONE_NUMBER}

\* the texts the client and the admin send
TextsOf(p) ==
    { <<"hi">>, <<"perth", "friday", "7pm", "1 hour", "gfe", "incall">> }
    \cup (IF p = ClientPhone THEN { <<"John", "yes">> }
          ELSE { <<"LOCATION", "Perth:", "1 Hay St">> })

InitTwo ==
    /\ USE_POSTGRES \in BOOLEAN
    /\ blocked = {}
    /\ logged = [p \in TwoPhones |-> 0]
    /\ pending = [p \in TwoPhones |-> <<>>]
    /\ progress = [p \in TwoPhones |-> <<>>]
    /\ tracking = [p \in TwoPhones |-> <<>>]
    /\ deposits = [p \in TwoPhones |-> <<>>]
    /\ reminders = [p \in TwoPhones |-> <<>>]
    /\ location = DefaultLocation
    /\ reply = NoReply(ClientPhone)
    /\ outbox = <<>>
    /\ prompts = [p \in TwoPhones |-> 0]
    /\ pc = [t \in Threads |-> "idle"]
    /\ local = [t \in Threads |-> NoLocals]
    /\ origin = <<>>
    /\ now = 0
    /\ delivered = [p \in TwoPhones |-> <<>>]
    /\ polish = NoPolish
    /\ redirected = {}

NextTwo ==
    \/ \E p \in TwoPhones : \E m \in TextsOf(p) : Receive(p, m)
    \/ SubmitForm(ClientPhone, "Incall")

SpecTwo == InitTwo /\ [][NextTwo]_vars


(***************************************************************************)
(* C23.  The decision order of the handler.                                *)
(***************************************************************************)
\* texts that match one branch and texts that match several
OrderTexts ==
    { <<"hi">>,
      <<"ENQUIRY", "bb", "cancel", "John", "yes">>,
      <<"bb", "cancel">>,
      <<"bb", "John", "yes">>,
      <<"cancel", "John", "yes">>,
      <<"LOCATION", "cancel", "1 Hay St">>,
      <<"LOCATION", "John", "yes">>,
      <<"LOCATION", "Perth:", "1 Hay St">>,
      <<"John", "yes">>,
      <<"DEPOSIT">>,
      <<"perth", "friday", "7pm", "1 hour", "gfe", "incall">> }

\* the earliest branch, in the order of the decision list, that the message
\* m from p matches in the current state
EarliestBranch(p, m) ==
    IF p \in blocked THEN "blocked"
    ELSE IF StartsWithEnquiry(m) THEN "enquiry"
    ELSE IF detect_unsafe_requests(m) # {} THEN "unsafe"
    ELSE IF is_cancellation(m) THEN "cancellation"
    ELSE IF p \in AUTHORIZED_ADMIN_NUMBERS /\ StartsWithLocation(m) THEN "location"
    ELSE IF ContainsYes(m) /\ pending[p] # <<>> THEN "yes"
    ELSE IF IsDepositKeyword(m) /\ pending[p] # <<>> THEN "deposit"
    ELSE IF RedirectDue(p) THEN "cap"
    ELSE IF logged[p] = 0 THEN "first_contact"
    ELSE "extraction"

\* the replies of each branch
RepliesOf(branch) ==
    CASE branch = "blocked" -> {"none"}
      [] branch = "enquiry" -> {"enquiry_forwarded"}
      [] branch = "unsafe" -> {"unsafe_request"}
      [] branch = "cancellation" -> {"booking_cancelled"}
      [] branch = "location" -> {"location_updated"}
      [] branch = "yes" -> {"need_name", "deposit_mandatory", "booking_confirmed"}
      [] branch = "deposit" -> {"payid_details"}
      [] branch = "cap" -> {"enquiry_redirect"}
      [] branch = "first_contact" -> {"first_contact"}
      [] branch = "extraction" ->
            {"random_request", "ask_missing", "fourth_message_enquiry",
             "fifth_message_block", "time_available"}

\* C23: the reply of every turn is one of the earliest matching branch; a
\* turn answered by the ENQUIRY or the unsafe-content branch leaves the
\* pending confirmations in place, even when the text has a cancellation
\* keyword; a turn answered by the cancellation branch confirms no booking,
\* even when the text has YES
C23_EarliestBranch ==
    \A p \in TwoPhones : \A m \in OrderTexts : \A o \in Outcomes(p, m) :
        /\ o.reply.kind \in RepliesOf(EarliestBranch(p, m))
        /\ EarliestBranch(p, m) \in {"blocked", "enquiry", "unsafe"}
           => /\ o.store.pending = pending
              /\ o.store.tracking = tracking
        /\ EarliestBranch(p, m) = "cancellation"
           => /\ o.store.deposits = deposits
              /\ o.store.reminders = reminders
              /\ o.store.pending[p] = <<>>

\* the admin has a pending confirmation and a stored count, and its LOCATION
\* text was answered by the location branch
C23_Witness ==
    /\ pending[ADELLA_PHONE_NUMBER] # <<>>
    /\ tracking[ADELLA_PHONE_NUMBER] # <<>>
    /\ reply.to = ADELLA_PHONE_NUMBER
    /\ reply.kind = "location_updated"


(***************************************************************************)
(* C24.  The tiers of the extraction step.                                 *)
(***************************************************************************)
\* the store at the point where the extraction step of a turn of p reads the
\* attempt count: the message is logged and the post-booking count is
\* incremented
ReadPoint(p, ord) ==
    LET S1 == log_message(Store, p)
    IN  IF S1.tracking[p] # <<>> THEN increment_post_booking_messages(S1, p, ord) ELSE S1

\* the turn of the message m from p reaches the extraction step with
\* required information missing
MissingAtExtraction(p, m) ==
    /\ p \notin blocked
    /\ ~KeywordBranch(p, m)
    /\ ~RedirectDue(p)
    /\ logged[p] # 0
    /\ \/ ~AnyValue(Extracted[m]) /\ progress[p] = <<>>
       \/ MissingSet(DetailsAt(p, m)) # {}

\* C24: on a turn that reaches the extraction step with required information
\* missing, with a the attempt count read there: a = 4 gives the automated
\* redirect and the count 5; a >= 5 gives the final refusal and the phone
\* number blocked; a <= 3 gives an ask for fields and the count a + 1
C24_Tiers ==
    \A p \in Phones : \A m \in AskTexts :
        MissingAtExtraction(p, m)
        => \A ord \in Orders :
              LET o == incoming_sms(Store, p, m, ord)
                  a == get_booking_attempts(ReadPoint(p, ord), p, ord)
              IN  /\ a = 4 => /\ o.reply.kind = "fourth_message_enquiry"
                              /\ \A after \in Orders :
                                    get_booking_attempts(o.store, p, after) = 5
                              /\ p \notin o.store.blocked
                  /\ a >= 5 => /\ o.reply.kind = "fifth_message_block"
                               /\ p \in o.store.blocked
                  /\ a <= 3 => /\ o.reply.kind \in PromptKinds
                               /\ \A after \in Orders :
                                     get_booking_attempts(o.store, p, after) = a + 1
                               /\ p \notin o.store.blocked

\* the three tiers one after the other: a phone number with stored progress
\* has been asked, redirected and then blocked
C24_Witness ==
    \E p \in Phones :
        /\ progress[p] # <<>>
        /\ reply.kind = "fifth_message_block"
        /\ p \in blocked


(***************************************************************************)
(* C25.  The pending confirmations the extraction step creates.            *)
(***************************************************************************)
\* the pending confirmation row has every required field, and the outcall
\* address when it is an Outcall
CompletePending(row) ==
    /\ \A f \in {"city", "date", "time", "duration", "experience_type", "incall_outcall"} :
          row[f] # NULL
    /\ row.incall_outcall = "Outcall" => row.outcall_address # NULL

\* C25: a turn that no keyword branch answers writes the pending
\* confirmations of the phone number only when no required field is missing
\* from the stored progress merged with the message, and then leaves one
\* pending confirmation with every required field; the reply that announces
\* the captured booking comes with such a pending confirmation
C25_PendingComplete ==
    \A p \in Phones :
        p \notin blocked
        => \A m \in InboundMessages : \A o \in Outcomes(p, m) :
              ~KeywordBranch(p, m)
              => /\ o.store.pending[p] # pending[p]
                    => /\ MissingSet(DetailsAt(p, m)) = {}
                       /\ Len(o.store.pending[p]) = 1
                       /\ CompletePending(o.store.pending[p][1])
                 /\ o.reply.kind = "time_available"
                    => /\ o.store.pending[p] # <<>>
                       /\ CompletePending(o.store.pending[p][1])

\* the extraction step has created the pending confirmation of an Outcall
\* booking, with its address
C25_Witness ==
    /\ reply.kind = "time_available"
    /\ pending[reply.to] # <<>>
    /\ PendingOf(reply.to).incall_outcall = "Outcall"
    /\ PendingOf(reply.to).outcall_address # NULL


(***************************************************************************)
(* Turns in which a store operation fails: execute_query raises after its  *)
(* retries (lines 50-109).  is_number_blocked catches the error and        *)
(* returns False (lines 1209-1210), so the handler goes on as for a phone  *)
(* number that is not in blocked_numbers; log_message does not catch it,   *)
(* so the request ends with the error and no TwiML reply.                  *)
(***************************************************************************)
\* the largest stored count at which a turn with a failed lookup is explored
MaxCount == 7

\* incoming_sms when the query of is_number_blocked raises
incoming_sms_lookup_failed(S, p, m, ord) ==
    LET o == incoming_sms([S EXCEPT !.blocked = @ \ {p}], p, m, ord)
    IN  [o EXCEPT !.store.blocked = @ \cup S.blocked]

\* incoming_sms when the query of log_message raises
incoming_sms_log_failed(S, p, m, ord) == Outcome(S, NoReply(p), <<>>)

ReceiveLookupFailed(p, m) ==
    /\ \A ord \in Orders : get_booking_attempts(Store, p, ord) < MaxCount
    /\ \E ord \in Orders : Apply(incoming_sms_lookup_failed(Store, p, m, ord))

ReceiveLogFailed(p, m) ==
    \E ord \in Orders : Apply(incoming_sms_log_failed(Store, p, m, ord))

NextFail ==
    \/ NextAsk
    \/ \E p \in Phones, m \in AskTexts : ReceiveLookupFailed(p, m)
    \/ \E p \in Phones, m \in AskTexts : ReceiveLogFailed(p, m)

SpecFail == InitAsk /\ [][NextFail]_vars

(***************************************************************************)
(* C26.  A failed store operation drops the turn.                          *)
(***************************************************************************)
\* C26: a turn in which a store operation fails after its retries, be it
\* the blocked-set lookup or the insert of the message, sends no reply and
\* changes no stored record
C26_FailureDropsTurn ==
    \A p \in Phones : \A m \in AskTexts : \A ord \in Orders :
        \A o \in {incoming_sms_lookup_failed(Store, p, m, ord),
                  incoming_sms_log_failed(Store, p, m, ord)} :
            /\ o.reply.kind = "none"
            /\ o.outbox = <<>>
            /\ o.store = Store


(***************************************************************************)
(* execute_query (lines 50-109) with get_db_connection (lines 34-47), run  *)
(* by the request thread 1.  pc is the statement it executes next; its     *)
(* locals are the index of the attempt, the variable conn, the error of    *)
(* the attempt, what the attempt does after its finally clause, and as     *)
(* history the connections opened and closed so far.                       *)
(***************************************************************************)
\* the default of the parameter max_retries (line 50)
max_retries == 3

\* the errors an attempt can meet: a sqlite3 error whose text has "locked",
\* another sqlite3.DatabaseError, any other exception
ErrorKinds == {"locked", "database", "other"}

QueryLocals(fetch) ==
    [fetch |-> fetch, attempt |-> 0, conn |-> "None", error |-> "none",
     after |-> "none", opened |-> 0, closed |-> 0]

InitQuery ==
    /\ USE_POSTGRES \in BOOLEAN
    /\ blocked = {}
    /\ logged = [p \in Phones |-> 0]
    /\ pending = [p \in Phones |-> <<>>]
    /\ progress = [p \in Phones |-> <<>>]
    /\ tracking = [p \in Phones |-> <<>>]
    /\ deposits = [p \in Phones |-> <<>>]
    /\ reminders = [p \in Phones |-> <<>>]
    /\ location = DefaultLocation
    /\ reply = NoReply(ClientPhone)
    /\ outbox = <<>>
    /\ prompts = [p \in Phones |-> 0]
    /\ pc = [t \in Threads |-> IF t = 1 THEN "for" ELSE "idle"]
    /\ \E fetch \in BOOLEAN :
          local = [t \in Threads |-> IF t = 1 THEN QueryLocals(fetch) ELSE NoLocals]
    /\ origin = <<>>
    /\ now = 0
    /\ delivered = [p \in Phones |-> <<>>]
    /\ polish = NoPolish
    /\ redirected = {}

QueryStep(to, loc) ==
    /\ Goto(1, to, loc)
    /\ UNCHANGED <<blocked, logged, tracking>>

\* line 53: for attempt in range(max_retries), conn = None.  The loop never
\* ends by exhaustion (line 109): the last attempt returns or raises.
QueryFor ==
    /\ pc[1] = "for"
    /\ local[1].attempt < max_retries
    /\ QueryStep("connect", [local[1] EXCEPT !.conn = "None", !.error = "none",
                                             !.after = "none"])

\* line 58 and lines 34-47: get_db_connection gives a connection
ConnectOk ==
    /\ pc[1] = "connect"
    /\ QueryStep("execute", [local[1] EXCEPT !.conn = "open", !.opened = @ + 1])

\* lines 37, 43: connect raises, no connection is made
ConnectFails(e) ==
    /\ pc[1] = "connect"
    /\ QueryStep("except", [local[1] EXCEPT !.error = e])

\* lines 45-46: sqlite3.connect has made the connection and a PRAGMA on it
\* raises; the connection is not returned, conn stays None
PragmaFails(e) ==
    /\ pc[1] = "connect"
    /\ ~USE_POSTGRES
    /\ e \in {"locked", "database"}
    /\ QueryStep("except", [local[1] EXCEPT !.error = e, !.opened = @ + 1])

\* lines 59-79: cursor, execute, fetchall or commit, return
ExecuteOk ==
    /\ pc[1] = "execute"
    /\ QueryStep("finally", [local[1] EXCEPT !.after = "return"])

\* lines 59-79: a statement of the try block raises
ExecuteFails(e) ==
    /\ pc[1] = "execute"
    /\ QueryStep("except", [local[1] EXCEPT !.error = e])

\* lines 81-98.  Under PostgreSQL the name sqlite3 is not imported (lines
\* 28-32): evaluating the first except clause raises NameError.
QueryExcept ==
    /\ pc[1] = "except"
    /\ LET l == local[1]
           retry == /\ ~USE_POSTGRES
                    /\ l.error = "locked"
                    /\ l.attempt < max_retries - 1
       IN  QueryStep("finally", [l EXCEPT !.after = IF retry THEN "continue" ELSE "raise"])

\* lines 100-105: close the cursor and the connection, then return, raise
\* or go to the next attempt
QueryFinally ==
    /\ pc[1] = "finally"
    /\ LET l == local[1]
           c == IF l.conn = "open"
                THEN [l EXCEPT !.conn = "closed", !.closed = @ + 1] ELSE l
       IN  IF l.after = "continue"
           THEN QueryStep("for", [c EXCEPT !.attempt = @ + 1])
           ELSE QueryStep("done", c)

NextQuery ==
    \/ QueryFor
    \/ ConnectOk
    \/ \E e \in ErrorKinds : ConnectFails(e)
    \/ \E e \in ErrorKinds : PragmaFails(e)
    \/ ExecuteOk
    \/ \E e \in ErrorKinds : ExecuteFails(e)
    \/ QueryExcept
    \/ QueryFinally

SpecQuery == InitQuery /\ [][NextQuery]_vars


(***************************************************************************)
(* C27.  The attempts of execute_query.                                    *)
(***************************************************************************)
\* C27: execute_query makes at most max_retries attempts; it starts another
\* attempt only after a lock-contention error; it ends by returning from an
\* attempt without error, or by raising after a non-lock error or after the
\* failure of the last attempt; and when an attempt is over, every
\* connection opened so far has been closed
C27_BoundedRetries ==
    LET l == local[1]
    IN  /\ l.attempt < max_retries
        /\ (pc[1] = "for" /\ l.attempt > 0) => l.error = "locked"
        /\ (pc[1] = "finally" /\ l.error \in {"database", "other"}) => l.after = "raise"
        /\ (pc[1] = "finally" /\ l.error # "none" /\ l.attempt = max_retries - 1)
           => l.after = "raise"
        /\ pc[1] = "done"
           => \/ l.after = "return" /\ l.error = "none"
              \/ l.after = "raise" /\ l.error # "none"
        /\ pc[1] \in {"for", "done"} => l.closed = l.opened


(***************************************************************************)
(* Two identities, handled one after the other or at the same time.  A run *)
(* either handles whole requests of the client and of the admin in turn,   *)
(* or starts with one request of each in flight, on the path of a message  *)
(* without booking information, and interleaves their statements.          *)
(***************************************************************************)
InitTwoRace ==
    /\ USE_POSTGRES \in BOOLEAN
    /\ blocked = {}
    /\ \E st \in [TwoPhones -> RaceStarts] :
          /\ logged = [p \in TwoPhones |-> st[p].logged]
          /\ tracking = [p \in TwoPhones |-> st[p].tracking]
          /\ prompts = [p \in TwoPhones |-> st[p].prompts]
          /\ reply = st[ClientPhone].reply
    /\ pending = [p \in TwoPhones |-> <<>>]
    /\ progress = [p \in TwoPhones |-> <<>>]
    /\ deposits = [p \in TwoPhones |-> <<>>]
    /\ reminders = [p \in TwoPhones |-> <<>>]
    /\ location = DefaultLocation
    /\ outbox = <<>>
    /\ pc = [t \in Threads |-> "is_number_blocked"]
    /\ local = [t \in Threads |-> NoLocals]
    /\ origin = Store
    /\ now = 0
    /\ delivered = [p \in TwoPhones |-> <<>>]
    /\ polish = NoPolish
    /\ redirected = {}

InitIsolation == InitTwo \/ InitTwoRace

\* whole requests are handled in the runs without a request in flight
NextIsolation ==
    \/ /\ \A t \in Threads : pc[t] = "idle"
       /\ \E p \in TwoPhones : \E m \in TextsOf(p) : Receive(p, m)
    \/ NextRace

SpecIsolation == InitIsolation /\ [][NextIsolation]_vars

(***************************************************************************)
(* C28.  Isolation of the identities.                                      *)
(***************************************************************************)
\* what the store S holds under the phone number q
RowsOf(S, q) ==
    [progress |-> S.progress[q], tracking |-> S.tracking[q],
     pending |-> S.pending[q], reminders |-> S.reminders[q],
     blocked |-> q \in S.blocked]

\* the store S without anything under the phone number q
Without(S, q) ==
    [S EXCEPT !.progress[q] = <<>>, !.tracking[q] = <<>>, !.pending[q] = <<>>,
              !.reminders[q] = <<>>, !.deposits[q] = <<>>, !.logged[q] = 0,
              !.blocked = @ \ {q}]

\* a text for each branch of the handler
IsolationTexts ==
    { <<"hi">>, <<"ENQUIRY", "hi">>, <<"bb">>, <<"cancel">>, <<"John", "yes">>,
      <<"DEPOSIT">>, <<"perth", "friday", "7pm", "1 hour", "gfe", "incall">>,
      <<"LOCATION", "Perth:", "1 Hay St">> }

\* the requests in flight have returned
BothDone == \A t \in Threads : pc[t] = "done"

\* C28: the handling of a message of one identity leaves the booking
\* progress, the attempt count, the pending confirmation, the reminders and
\* the blocked status of every other identity as they were, and what it does
\* to its own and what it replies does not depend on what the store holds
\* under the other identity; after two requests of two identities handled at
\* the same time, each identity has what its request alone gives it
C28_Isolation ==
    /\ \A A \in TwoPhones : \A B \in TwoPhones \ {A} : \A m \in IsolationTexts :
          \A ord \in Orders :
             LET o == incoming_sms(Store, A, m, ord)
                 alone == incoming_sms(Without(Store, B), A, m, ord)
             IN  /\ RowsOf(o.store, B) = RowsOf(Store, B)
                 /\ RowsOf(alone.store, A) = RowsOf(o.store, A)
                 /\ alone.reply = o.reply
    /\ BothDone
       => \A q \in TwoPhones :
             \E o \in {incoming_sms(origin, q, RaceMessage, ord) : ord \in Orders} :
                RowsOf(Store, q) = RowsOf(o.store, q)

\* the two requests handled at the same time have returned, the one of the
\* client with the number blocked, and the admin is not blocked
C28_Witness ==
    /\ BothDone
    /\ PhoneOf(2) = ADELLA_PHONE_NUMBER
    /\ local[1].kind = "fifth_message_block"
    /\ ClientPhone \in blocked
    /\ ADELLA_PHONE_NUMBER \notin blocked
    /\ tracking[ADELLA_PHONE_NUMBER] # <<>>









(***************************************************************************)
(* The ENQUIRY keyword and the unsafe-request refusal, with the forward to *)
(* Adella accepted by Twilio or not.                                       *)
(***************************************************************************)
ForwardTexts ==
    AskTexts \cup { <<"ENQUIRY", "hi">>, <<"ENQUIRY", "cancel", "John", "yes">>,
                    <<"bb">>, <<"bb", "cancel">>,
                    <<"perth", "friday", "7pm", "1 hour", "gfe", "incall">> }

\* lines 1364-1383 with send_sms returning False (lines 860-862, 872-874): no
\* SMS goes out, and the handler does not look at what send_sms returns
ReceiveUnforwarded(p, m) ==
    /\ StartsWithEnquiry(m)
    /\ ~is_number_blocked(Store, p)
    /\ Apply([EnquiryTurn(log_message(Store, p), p) EXCEPT !.outbox = <<>>])

NextForward ==
    \/ \E p \in Phones, m \in ForwardTexts : Receive(p, m)
    \/ \E p \in Phones, m \in ForwardTexts : ReceiveUnforwarded(p, m)

SpecForward == InitAsk /\ [][NextForward]_vars

(***************************************************************************)
(* C29.  The frame of the ENQUIRY turn and of the unsafe-request turn.     *)
(***************************************************************************)
\* the request with the text m from p is handled by one of the two branches
EnquiryText(m) == m[1] = "ENQUIRY"
UnsafeText(m) == m[1] = "bb"

\* the step leaves the booking progress, the attempt count, the pending
\* confirmation and the blocked status of p as they were
KeepsBookingState(p) ==
    /\ progress'[p] = progress[p]
    /\ \A ord \in Orders :
          get_booking_attempts(Store, p, ord)' = get_booking_attempts(Store, p, ord)
    /\ tracking'[p] = tracking[p]
    /\ pending'[p] = pending[p]
    /\ (p \in blocked') = (p \in blocked)

\* C29: a request with the ENQUIRY keyword and a request with an unsafe term,
\* from a number that is not blocked, leave the booking progress, the attempt
\* count, the pending confirmation and the blocked status of the number as
\* they were; the first is answered with the acknowledgement of the forward,
\* with the forward accepted for sending or not, and the second with the
\* refusal template
C29_KeywordTurnsKeepState ==
    [][\A p \in Phones \ blocked : \A m \in ForwardTexts :
          /\ EnquiryText(m) /\ (Receive(p, m) \/ ReceiveUnforwarded(p, m))
             => /\ KeepsBookingState(p)
                /\ reply' = Reply(p, "enquiry_forwarded", 0, NULL)
          /\ UnsafeText(m) /\ Receive(p, m)
             => /\ KeepsBookingState(p)
                /\ reply' = Reply(p, "unsafe_request", 0, NULL)
                /\ outbox' = <<>>]_vars

\* the acknowledgement has gone to a number with stored progress, prompts
\* counted and a pending confirmation, and the forward has not gone out
C29_Witness ==
    /\ reply.kind = "enquiry_forwarded"
    /\ outbox = <<>>
    /\ progress[reply.to] # <<>>
    /\ pending[reply.to] # <<>>
    /\ AttemptCount(reply.to) >= 1


(***************************************************************************)
(* C30.  The DEPOSIT turn.                                                 *)
(***************************************************************************)
DepositText == <<"DEPOSIT">>

\* C30: the request with the text DEPOSIT from a number that is not blocked
\* and has a pending confirmation leaves that pending confirmation with the
\* same booking fields, status, client name and calendar reference and with
\* the deposit screenshot awaited, and leaves the booking progress and the
\* attempt count as they were; from a number without a pending confirmation
\* it is not answered with the payment details and no deposit screenshot is
\* awaited after it
C30_DepositTurn ==
    \A p \in Phones \ blocked : \A o \in Outcomes(p, DepositText) :
        IF pending[p] # <<>>
        THEN /\ o.store.pending[p] =
                   <<[PendingOf(p) EXCEPT !.awaiting_deposit_screenshot = TRUE]>>
             /\ o.store.progress[p] = progress[p]
             /\ o.store.tracking[p] = tracking[p]
             /\ o.reply.kind = "payid_details"
        ELSE /\ o.reply.kind # "payid_details"
             /\ \A i \in DOMAIN o.store.pending[p] :
                   ~o.store.pending[p][i].awaiting_deposit_screenshot

\* the payment details have gone to a number whose pending confirmation
\* carries a client name and a status other than the default one, and which
\* has stored progress and prompts counted
C30_Witness ==
    /\ reply.kind = "payid_details"
    /\ pending[reply.to] # <<>>
    /\ PendingOf(reply.to).awaiting_deposit_screenshot
    /\ PendingOf(reply.to).client_name # NULL
    /\ PendingOf(reply.to).booking_status # "available"
    /\ AttemptCount(reply.to) >= 1


(***************************************************************************)
(* C31.  The window of the reminder check.                                 *)
(***************************************************************************)
\* the stored booking time is one strptime reads
Parseable(r) == r.booking_datetime = "Friday 20/12/2025 7:00PM"

\* the minutes from the time at to the booking of a parseable row
MinutesUntilBooking(at) == (BookingSlot - at) * 5

InReminderWindow(r, at) ==
    /\ Parseable(r)
    /\ 55 <= MinutesUntilBooking(at)
    /\ MinutesUntilBooking(at) <= 65

\* C31: an invocation of the reminder check sends the message of a reminder
\* only if the booking of the reminder is between 55 and 65 minutes away,
\* both included, at the invocation; a reminder outside the window and a
\* reminder whose stored booking time cannot be parsed stay unsent and as
\* they were
C31_ReminderWindow ==
    [][\A p \in Phones :
          /\ \A i \in DOMAIN reminders[p] :
                /\ delivered'[p][i] # delivered[p][i]
                   => InReminderWindow(reminders[p][i], now)
                /\ ~InReminderWindow(reminders[p][i], now)
                   => /\ reminders'[p][i] = reminders[p][i]
                      /\ delivered'[p][i] = delivered[p][i]
          /\ (reply'.kind = "reminders_checked" /\ reply'.to = p /\ now' = now)
             => Len(outbox') <= Cardinality({i \in DOMAIN reminders[p] :
                                                InReminderWindow(reminders[p][i], now)})]_vars

\* a check 65 minutes before the booking has sent the message of the one
\* reminder and has left the reminder with the unparseable time unsent
C31_Witness ==
    /\ reply.kind = "reminders_checked"
    /\ MinutesUntilBooking(now) = 65
    /\ Len(outbox) = 1
    /\ \E p \in Phones : \E i, j \in DOMAIN reminders[p] :
          /\ Parseable(reminders[p][i])
          /\ reminders[p][i].sent /\ delivered[p][i] = 1
          /\ ~Parseable(reminders[p][j])
          /\ ~reminders[p][j].sent /\ delivered[p][j] = 0


(***************************************************************************)
(* C32.  The location record is written by the admin's LOCATION turn.      *)
(***************************************************************************)
LocationTexts ==
    { <<"hi">>,
      <<"LOCATION", "Perth:", "1 Hay St">>,
      <<"LOCATION", "2 Murray St">>,
      <<"LOCATION">>,
      <<"location", "Perth:", "1 Hay St">>,
      <<"hi", "LOCATION", "Perth:", "1 Hay St">>,
      <<"LOCATION", "John", "yes">>,
      <<"perth", "friday", "7pm", "1 hour", "gfe", "incall">> }

\* the text starts with the location marker 'LOCATION '
HasLocationMarker(m) == m[1] = "LOCATION" /\ Len(m) >= 2

\* C32: a message changes the location record only when its sender is on the
\* admin allowlist and its text starts with the location marker; the turn of
\* such a message, from a sender that is not blocked and with no unsafe term
\* and no cancellation keyword in the text, is answered with the location
\* confirmation and leaves the booking progress, the attempt count and the
\* pending confirmation of the sender as they were
C32_LocationByAdminOnly ==
    \A p \in TwoPhones : \A m \in LocationTexts : \A o \in Outcomes(p, m) :
        /\ o.store.location # location
           => p = ADELLA_PHONE_NUMBER /\ HasLocationMarker(m)
        /\ (p = ADELLA_PHONE_NUMBER /\ HasLocationMarker(m) /\ p \notin blocked)
           => /\ o.reply.kind = "location_updated"
              /\ o.store.progress[p] = progress[p]
              /\ o.store.tracking[p] = tracking[p]
              /\ o.store.pending[p] = pending[p]

\* the admin's LOCATION message has changed the record and has been answered
\* with the confirmation, the admin having stored progress, a count and a
\* pending confirmation, and the client having sent messages too
C32_Witness ==
    /\ reply.to = ADELLA_PHONE_NUMBER
    /\ reply.kind = "location_updated"
    /\ location # DefaultLocation
    /\ progress[ADELLA_PHONE_NUMBER] # <<>>
    /\ tracking[ADELLA_PHONE_NUMBER] # <<>>
    /\ pending[ADELLA_PHONE_NUMBER] # <<>>
    /\ logged[ClientPhone] >= 1


(***************************************************************************)
(* C33.  The tone of the prompts.                                          *)
(***************************************************************************)
\* the tone of the tier of a repetition count
TierOf(n) ==
    CASE n \in {0, 1} -> "warmer and friendlier"
      [] n \in {2, 3} -> "more direct and businesslike"
      [] n >= 4 -> "firm and to-the-point"

\* C33: the tone asked of the rewrite is the one of the tier of the
\* repetition count (0-1 warm, 2-3 direct, 4 or more firm); a prompt for
\* booking information is composed with the attempt count the turn reads
\* before it increments the count, and the automated redirect and the final
\* refusal are composed with the firm tone
C33_ToneTiers ==
    /\ \A n \in 0..MaxCount : tone_instruction(n) = TierOf(n)
    /\ \A p \in Phones \ blocked : \A m \in AskTexts : \A ord \in Orders :
          LET o == incoming_sms(Store, p, m, ord)
              read == get_booking_attempts(ReadPoint(p, ord), p, ord)
          IN  /\ o.reply.kind \in {"ask_missing", "random_request"}
                 => /\ o.reply.rep = read
                    /\ tone_instruction(o.reply.rep) = TierOf(read)
                    /\ get_booking_attempts(o.store, p, ord) = read + 1
              /\ o.reply.kind \in {"fourth_message_enquiry", "fifth_message_block"}
                 => tone_instruction(o.reply.rep) = TierOf(4)

\* a prompt for the missing fields has been composed with the direct tone,
\* the count read being 2 or 3 and the count stored after it one more
C33_Witness ==
    /\ reply.kind = "ask_missing"
    /\ reply.rep \in {2, 3}
    /\ tone_instruction(reply.rep) = "more direct and businesslike"
    /\ AttemptCount(reply.to) = reply.rep + 1


(***************************************************************************)
(* parse_date_from_message (lines 1102-1137) on a text with a weekday name *)
(* and no DD/MM date.  The days are counted from a Monday, so that the     *)
(* weekday of the day n is n % 7, Monday being 0 as in datetime.weekday(). *)
(***************************************************************************)
MaxToday == 13

\* the keys of the dict days in their order; the value of the i-th is i - 1
DayNames ==
    <<"monday", "tuesday", "wednesday", "thursday", "friday", "saturday", "sunday">>

DateTexts ==
    { <<DayNames[i]>> : i \in DOMAIN DayNames }
    \cup { <<"see", "you", "sunday">>, <<"hi">> }

\* line 1126 with < for <=
WrapNeeded_strict(days_ahead) == days_ahead < 0

\* line 1126: if days_ahead <= 0
WrapNeeded(days_ahead) == days_ahead <= 0

\* the locals of the call: the text, today, the position in the dict,
\* days_ahead, the day returned (-1 for None)
DateLocals(m, today) ==
    [message |-> m, today |-> today, i |-> 1, days_ahead |-> 0, result |-> -1]

InitDate ==
    /\ USE_POSTGRES \in BOOLEAN
    /\ blocked = {}
    /\ logged = [p \in Phones |-> 0]
    /\ pending = [p \in Phones |-> <<>>]
    /\ progress = [p \in Phones |-> <<>>]
    /\ tracking = [p \in Phones |-> <<>>]
    /\ deposits = [p \in Phones |-> <<>>]
    /\ reminders = [p \in Phones |-> <<>>]
    /\ location = DefaultLocation
    /\ reply = NoReply(ClientPhone)
    /\ outbox = <<>>
    /\ prompts = [p \in Phones |-> 0]
    /\ pc = [t \in Threads |-> IF t = 1 THEN "for" ELSE "idle"]
    /\ \E m \in DateTexts : \E today \in 0..MaxToday :
          local = [t \in Threads |-> IF t = 1 THEN DateLocals(m, today) ELSE NoLocals]
    /\ origin = <<>>
    /\ now = 0
    /\ delivered = [p \in Phones |-> <<>>]
    /\ polish = NoPolish
    /\ redirected = {}

DateStep(to, loc) ==
    /\ Goto(1, to, loc)
    /\ UNCHANGED <<blocked, logged, tracking>>

\* lines 1122-1123: the day name is not in the text, the loop goes on
DateNextName ==
    /\ pc[1] = "for"
    /\ local[1].i < Len(DayNames)
    /\ ~Contains(local[1].message, DayNames[local[1].i])
    /\ DateStep("for", [local[1] EXCEPT !.i = @ + 1])

\* lines 1122-1125: the day name is in the text
DateDaysAhead ==
    /\ pc[1] = "for"
    /\ Contains(local[1].message, DayNames[local[1].i])
    /\ DateStep("if", [local[1] EXCEPT
                          !.days_ahead = (local[1].i - 1) - (local[1].today % 7)])

\* lines 1126-1127
DateWrap ==
    /\ pc[1] = "if"
    /\ WrapNeeded(local[1].days_ahead)
    /\ DateStep("return", [local[1] EXCEPT !.days_ahead = @ + 7])

DateNoWrap ==
    /\ pc[1] = "if"
    /\ ~WrapNeeded(local[1].days_ahead)
    /\ DateStep("return", local[1])

\* line 1128: return today + timedelta(days=days_ahead)
DateReturn ==
    /\ pc[1] = "return"
    /\ DateStep("done", [local[1] EXCEPT !.result = local[1].today + local[1].days_ahead])

\* lines 1122, 1131-1137: no day name in the text, and neither today nor
\* tomorrow
DateNone ==
    /\ pc[1] = "for"
    /\ local[1].i = Len(DayNames)
    /\ ~Contains(local[1].message, DayNames[local[1].i])
    /\ DateStep("done", local[1])

NextDate ==
    \/ DateNextName
    \/ DateDaysAhead
    \/ DateWrap
    \/ DateNoWrap
    \/ DateReturn
    \/ DateNone

SpecDate == InitDate /\ [][NextDate]_vars

(***************************************************************************)
(* C34.  The date of a weekday name.                                       *)
(***************************************************************************)
\* the weekday the text names, 0 for Monday to 6 for Sunday
NamedWeekday(m) ==
    CHOOSE d \in 0..6 : \E i \in DOMAIN m : m[i] = DayNames[d + 1]

\* C34: for every weekday of today and every weekday named in the text, the
\* date returned is from 1 to 7 days after today, falls on the weekday
\* named, and is 7 days after today when the weekday named is the one of
\* today
C34_NextWeekday ==
    (pc[1] = "done" /\ local[1].result # -1)
    => LET today == local[1].today
           d == NamedWeekday(local[1].message)
           ahead == local[1].result - today
       IN  /\ 1 <= ahead /\ ahead <= 7
           /\ local[1].result % 7 = d
           /\ d = today % 7 => ahead = 7

\* the call has returned the date for the weekday of today: a week from today
C34_Witness ==
    /\ pc[1] = "done"
    /\ local[1].result = local[1].today + 7
    /\ local[1].today % 7 = 4
    /\ local[1].message = <<"friday">>


(***************************************************************************)
(* C35.  Once the pending confirmation of a phone number has the status    *)
(* deposit_required, no YES message from that number is answered with the  *)
(* confirmation of the booking, with the calendar event made, the reminder *)
(* scheduled and the pending confirmation deleted, while that pending      *)
(* confirmation stands.                                                    *)
(***************************************************************************)
C35_DepositStaysRequired ==
    \A p \in Phones \ blocked :
        (pending[p] # <<>> /\ PendingOf(p).booking_status = "deposit_required")
        => \A m \in YesMessages : \A o \in Outcomes(p, m) :
              /\ o.reply.kind # "booking_confirmed"
              /\ o.store.pending[p] # <<>>
              /\ o.store.reminders[p] = reminders[p]


(***************************************************************************)
(* C36.  Every field of the stored booking progress of a phone number that *)
(* is not empty holds a value the extractor gives for that field from a    *)
(* message: never the phone number, never the value of another field, on   *)
(* either store backend.                                                   *)
(***************************************************************************)
\* the values the extractor gives for the field f
ExtractedValues(f) == {Extracted[m][f] : m \in Messages} \ {NULL}

C36_ProgressHoldsExtractedValues ==
    \A p \in Phones : \A i \in DOMAIN progress[p] : \A f \in DOMAIN NoDetails :
        progress[p][i][f] # NULL => progress[p][i][f] \in ExtractedValues(f)


(***************************************************************************)
(* C37.  A phone number is blocked only after it has been sent the         *)
(* automated redirect of the fourth attempt since its attempt count was    *)
(* last reset: the count does not pass from below 4 to 5 or more between   *)
(* two turns that read it.                                                 *)
(***************************************************************************)
C37_RedirectBeforeBlock ==
    [][\A p \in Phones : (p \notin blocked /\ p \in blocked') => p \in redirected]_vars


(***************************************************************************)
(* C38.  The post-booking redirect to the ENQUIRY keyword goes only to a   *)
(* phone number that has had a booking confirmed (every confirmation       *)
(* records a row of deposit_requests, and no row of that table is ever     *)
(* deleted).                                                               *)
(***************************************************************************)
C38_RedirectAfterBooking ==
    reply.kind = "enquiry_redirect" => deposits[reply.to] # <<>>


(***************************************************************************)
(* Cancellation after the confirmation: the client of the confirmed        *)
(* bookings sends a cancellation, and the reminder check goes on being     *)
(* invoked.                                                                *)
(***************************************************************************)
CancelText == <<"cancel">>

NextCancel ==
    \/ NextReminders
    \/ \E p \in Phones : Receive(p, CancelText)

SpecCancel == InitReminders /\ [][NextCancel]_vars

(***************************************************************************)
(* C39.  After the cancellation turn of a phone number, no reminder check  *)
(* sends a room-detail reminder of a booking the phone number confirmed    *)
(* before the cancellation.  (The confirmation leaves a message_tracking   *)
(* row, the cancellation deletes it, and nothing else than a cancellation  *)
(* is sent here: the phone number without the row is the one that has      *)
(* cancelled.)                                                             *)
(***************************************************************************)
C39_NoReminderAfterCancel ==
    [][\A p \in Phones : \A i \in DOMAIN reminders[p] :
          tracking[p] = <<>> => delivered'[p][i] = delivered[p][i]]_vars


(***************************************************************************)
(* C40.  Blocking and the required fields.                                 *)
(***************************************************************************)
\* C40: a turn adds a phone number to the blocked numbers only when required
\* booking information is missing: no turn blocks a phone number whose
\* stored progress, merged with the message of the turn, has every required
\* field
C40_BlockedOnlyWhenMissing ==
    \A p \in Phones \ blocked : \A m \in InboundMessages : \A o \in Outcomes(p, m) :
        p \in o.store.blocked => MissingSet(DetailsAt(p, m)) # {}

====
